---- MODULE Spec2Model ----
(***************************************************************************)
(* Model of the amplitude-migration event pipeline:                        *)
(*   core.transform_event, core.apply_id_remap, core.send_batch,           *)
(*   time_utils.choose_time_ms / parse_iso_to_ms and runner.run_migration. *)
(***************************************************************************)
EXTENDS Integers, Sequences, FiniteSets, TLC

(***************************************************************************)
(* Python values.  Every value is a record of the same shape so that any   *)
(* two values can be compared: k is the Python type, n the number of an    *)
(* int / bool / float, s the text of a str, d the mapping of a dict (keys  *)
(* are strings) or the items of a list (keys are 1..len).                  *)
(***************************************************************************)
EmptyMap == [x \in {} |-> 0]

PyVal(kind, num, str, map) == [k |-> kind, n |-> num, s |-> str, d |-> map]

None == PyVal("none", 0, "", EmptyMap)

PyInt(i) == PyVal("int", i, "", EmptyMap)

PyFloat(i) == PyVal("float", i, "", EmptyMap)

PyStr(t) == PyVal("str", 0, t, EmptyMap)

PyBool(b) == PyVal("bool", IF b THEN 1 ELSE 0, "", EmptyMap)

PyDict(f) == PyVal("dict", 0, "", f)

PyList(q) == PyVal("list", 0, "", q)

IsDict(v) == v.k = "dict"

IsNum(v) == v.k \in {"int", "float", "bool"}

\* bool(v)
Truthy(v) ==
    CASE v.k = "none" -> FALSE
      [] IsNum(v) -> v.n # 0
      [] v.k = "str" -> v.s # ""
      [] OTHER -> DOMAIN v.d # {}

\* a == b : numbers compare by value across int / float / bool
PyEq(a, b) == IF IsNum(a) /\ IsNum(b) THEN a.n = b.n ELSE a = b

\* a or b
PyOr(a, b) == IF Truthy(a) THEN a ELSE b

\* f.get(key) and f.get(key, dflt) on a mapping f
Get(f, key) == IF key \in DOMAIN f THEN f[key] ELSE None

GetOr(f, key, dflt) == IF key \in DOMAIN f THEN f[key] ELSE dflt

\* f[key] = v
Put(f, key, v) == [x \in DOMAIN f \cup {key} |-> IF x = key THEN v ELSE f[x]]

\* f.update(g)
Update(f, g) == [x \in DOMAIN f \cup DOMAIN g |-> IF x \in DOMAIN g THEN g[x] ELSE f[x]]

\* for k in keys: f.pop(k, None)
PopAll(f, keys) == [x \in DOMAIN f \ keys |-> f[x]]

\* the elements of a list of strings
Elems(q) == {q[i] : i \in 1..Len(q)}

\* v in q, for a list q of strings
InList(v, q) == v.k = "str" /\ v.s \in Elems(q)

(***************************************************************************)
(* Texts.  Parsing and formatting are given on the texts the model uses.   *)
(***************************************************************************)
\* datetime.fromisoformat + timestamp()*1000 on the timestamp texts in use
IsoTable ==
    [t \in {"1970-01-01T00:00:02Z", "1970-01-01 00:00:03"} |->
        IF t = "1970-01-01T00:00:02Z" THEN 2000 ELSE 3000]

\* int(text) / float(text): the texts that are decimal numbers
NumTable == [t \in {"42", "1500", "0"} |-> IF t = "42" THEN 42 ELSE IF t = "1500" THEN 1500 ELSE 0]

\* text.strip() == "" for the texts in use
Blank(t) == t \in {"", " "}

(***************************************************************************)
(* time_utils.py                                                           *)
(***************************************************************************)
parse_iso_to_ms(value) ==
    IF ~Truthy(value) \/ value.k # "str" THEN None
    ELSE IF value.s \in DOMAIN IsoTable THEN PyInt(IsoTable[value.s])
    ELSE None

\* now is the wall clock reading int(time.time() * 1000)
choose_time_ms(evt, strategy, now) ==
    LET client_ms == IF Get(evt, "time").k = "int" THEN Get(evt, "time") ELSE None
        srv_recv_ms == parse_iso_to_ms(Get(evt, "server_received_time"))
        srv_upld_ms == parse_iso_to_ms(Get(evt, "server_upload_time"))
        s == IF strategy = "" THEN "prefer_client_fallback_server_received" ELSE strategy
    IN  CASE s = "client" -> IF client_ms # None THEN client_ms ELSE PyInt(now)
          [] s = "server_received" -> PyOr(PyOr(srv_recv_ms, client_ms), PyInt(now))
          [] s = "server_upload" -> PyOr(PyOr(srv_upld_ms, client_ms), PyInt(now))
          [] s = "prefer_client_fallback_server_received" ->
                PyOr(PyOr(client_ms, srv_recv_ms), PyInt(now))
          [] s = "prefer_client_fallback_server_upload" ->
                PyOr(PyOr(client_ms, srv_upld_ms), PyInt(now))
          [] OTHER -> PyOr(PyOr(PyOr(client_ms, srv_recv_ms), srv_upld_ms), PyInt(now))

(***************************************************************************)
(* core.py : filtering and renaming                                        *)
(***************************************************************************)
\* variant: an allowed type is kept without consulting the deny list
should_keep_event_AllowFirst(evt, allow, deny) ==
    LET et == Get(evt, "event_type")
    IN  IF Len(allow) > 0 /\ InList(et, allow) THEN TRUE
        ELSE IF Len(deny) > 0 /\ InList(et, deny) THEN FALSE
        ELSE Len(allow) = 0

should_keep_event(evt, allow, deny) ==
    LET et == Get(evt, "event_type")
    IN  IF Len(deny) > 0 /\ InList(et, deny) THEN FALSE
        ELSE IF Len(allow) > 0 /\ ~InList(et, allow) THEN FALSE
        ELSE TRUE

rename_event_type(et, rename_map) ==
    IF et.k = "str" /\ et.s \in DOMAIN rename_map THEN rename_map[et.s] ELSE et

\* str.split(".") of the paths in use
PathTable ==
    [p \in {"event_properties.x", "event_properties.y", "user_properties.x",
            "user_properties.y"} |->
        CASE p = "event_properties.x" -> <<"event_properties", "x">>
          [] p = "event_properties.y" -> <<"event_properties", "y">>
          [] p = "user_properties.x" -> <<"user_properties", "x">>
          [] OTHER -> <<"user_properties", "y">>]

SplitPath(p) == IF p \in DOMAIN PathTable THEN PathTable[p] ELSE <<p>>

RECURSIVE WalkPath(_, _, _, _)
WalkPath(evt, parts, i, cur) ==
    IF i > Len(parts) THEN cur
    ELSE IF i = 1 /\ parts[i] \in {"event_properties", "user_properties"}
         THEN WalkPath(evt, parts, i + 1, PyOr(Get(evt, parts[i]), PyDict(EmptyMap)))
    ELSE IF IsDict(cur) /\ parts[i] \in DOMAIN cur.d
         THEN WalkPath(evt, parts, i + 1, cur.d[parts[i]])
    ELSE None

\* path is a str or None
_get_by_path(evt, path) ==
    IF ~Truthy(path) THEN None
    ELSE WalkPath(evt, SplitPath(path.s), 1, PyDict(evt))

(***************************************************************************)
(* core.py : condition matching                                            *)
(***************************************************************************)
\* str(v).lower() for the values in use
LowerText(v) ==
    CASE v.k = "str" ->
            (CASE v.s = "Error 5" -> "error 5"
               [] v.s = "ERR" -> "err"
               [] OTHER -> v.s)
      [] v.k = "int" /\ v.n = 42 -> "42"
      [] v.k = "int" /\ v.n = 5 -> "5"
      [] v.k = "none" -> "none"
      [] OTHER -> "?"

\* needle in hay, for the lower-cased texts in use
SubstrIn(needle, hay) ==
    \/ needle = ""
    \/ needle = hay
    \/ <<needle, hay>> \in {<<"err", "error 5">>, <<"error", "error 5">>,
                             <<"5", "error 5">>, <<"4", "42">>, <<"2", "42">>}

\* float(v), as <<ok, number>>
ToNumber(v) ==
    CASE IsNum(v) -> <<TRUE, v.n>>
      [] v.k = "str" /\ v.s \in DOMAIN NumTable -> <<TRUE, NumTable[v.s]>>
      [] OTHER -> <<FALSE, 0>>

_is_empty(v) == v = None \/ v = PyStr("") \/ v = PyList(<<>>)

\* val in set(cmp): raises (so the condition fails) unless cmp is iterable
\* and val is hashable
InContainer(val, cmp) ==
    /\ cmp.k = "list"
    /\ val.k \notin {"dict", "list"}
    /\ \E i \in DOMAIN cmp.d : PyEq(val, cmp.d[i])

ContainerOK(val, cmp) == cmp.k = "list" /\ val.k \notin {"dict", "list"}

\* variant: an operator that is not known is passed over
OpHolds_UnknownPasses(val, op, cmp) ==
    CASE op = "not" -> ~PyEq(val, cmp)
      [] op = "in" -> cmp # None /\ InContainer(val, cmp)
      [] op = "not_in" -> cmp = None \/ (ContainerOK(val, cmp) /\ ~InContainer(val, cmp))
      [] op = "exists" -> (val # None) = Truthy(cmp)
      [] op = "empty" -> _is_empty(val) = Truthy(cmp)
      [] op = "range" ->
            /\ cmp.k = "list" /\ DOMAIN cmp.d = 1..2
            /\ val # None
            /\ ToNumber(val)[1]
            /\ IsNum(cmp.d[1]) /\ IsNum(cmp.d[2])
            /\ ToNumber(val)[2] >= cmp.d[1].n
            /\ ToNumber(val)[2] <= cmp.d[2].n
      [] op = "contains" ->
            /\ val # None /\ cmp # None
            /\ IF cmp.k = "list"
               THEN \E i \in DOMAIN cmp.d : SubstrIn(LowerText(cmp.d[i]), LowerText(val))
               ELSE SubstrIn(LowerText(cmp), LowerText(val))
      [] op = "not_contains" ->
            \/ val = None
            \/ cmp = None
            \/ IF cmp.k = "list"
               THEN ~\E i \in DOMAIN cmp.d : SubstrIn(LowerText(cmp.d[i]), LowerText(val))
               ELSE ~SubstrIn(LowerText(cmp), LowerText(val))
      [] OTHER -> TRUE

\* one operator of an operator object: TRUE iff the loop goes on
OpHolds(val, op, cmp) ==
    CASE op = "not" -> ~PyEq(val, cmp)
      [] op = "in" -> cmp # None /\ InContainer(val, cmp)
      [] op = "not_in" -> cmp = None \/ (ContainerOK(val, cmp) /\ ~InContainer(val, cmp))
      [] op = "exists" -> (val # None) = Truthy(cmp)
      [] op = "empty" -> _is_empty(val) = Truthy(cmp)
      [] op = "range" ->
            /\ cmp.k = "list" /\ DOMAIN cmp.d = 1..2
            /\ val # None
            /\ ToNumber(val)[1]
            /\ IsNum(cmp.d[1]) /\ IsNum(cmp.d[2])
            /\ ToNumber(val)[2] >= cmp.d[1].n
            /\ ToNumber(val)[2] <= cmp.d[2].n
      [] op = "contains" ->
            /\ val # None /\ cmp # None
            /\ IF cmp.k = "list"
               THEN \E i \in DOMAIN cmp.d : SubstrIn(LowerText(cmp.d[i]), LowerText(val))
               ELSE SubstrIn(LowerText(cmp), LowerText(val))
      [] op = "not_contains" ->
            \/ val = None
            \/ cmp = None
            \/ IF cmp.k = "list"
               THEN ~\E i \in DOMAIN cmp.d : SubstrIn(LowerText(cmp.d[i]), LowerText(val))
               ELSE ~SubstrIn(LowerText(cmp), LowerText(val))
      [] OTHER -> FALSE

\* one (path, expected) item of the condition mapping
PathHolds(evt, path, expected) ==
    LET val == IF path \in DOMAIN PathTable THEN _get_by_path(evt, PyStr(path))
               ELSE Get(evt, path)
    IN  IF ~IsDict(expected) THEN PyEq(val, expected)
        ELSE \A op \in DOMAIN expected.d : OpHolds(val, op, expected.d[op])

_match_conditions(evt, conditions) ==
    IF ~IsDict(conditions) THEN FALSE
    ELSE \A path \in DOMAIN conditions.d : PathHolds(evt, path, conditions.d[path])

(***************************************************************************)
(* core.py : property projection                                           *)
(***************************************************************************)
\* m.get(et, dflt) where the key et is a Python value and m has string keys
MapGet(m, et, dflt) == IF et.k = "str" /\ et.s \in DOMAIN m THEN m[et.s] ELSE dflt

MapHas(m, et) == et.k = "str" /\ et.s \in DOMAIN m

\* the order in which the keys of a source mapping were inserted (the order
\* of the keys in the source line)
KeyOrder == <<"x", "y", "z", "w">>

RECURSIVE Dedup(_, _, _)
Dedup(q, i, acc) ==
    IF i > Len(q) THEN acc
    ELSE Dedup(q, i + 1, IF q[i] \in Elems(acc) THEN acc ELSE Append(acc, q[i]))

\* {rmap.get(k, k): v for k, v in out.items()} over the keys in insertion order
RECURSIVE RenameKeys(_, _, _, _, _)
RenameKeys(order, src, rmap, i, acc) ==
    IF i > Len(order) THEN acc
    ELSE RenameKeys(order, src, rmap, i + 1,
                    Put(acc, GetOr(rmap, order[i], order[i]), src[order[i]]))

filter_props_for_event(et, props, keep_map, prop_rename_map) ==
    LET keep == MapGet(keep_map, et, GetOr(keep_map, "*", <<"*">>))
        order == IF keep = <<"*">>
                 THEN SelectSeq(KeyOrder, LAMBDA key : key \in DOMAIN props)
                 ELSE SelectSeq(Dedup(keep, 1, <<>>), LAMBDA key : key \in DOMAIN props)
        out == [key \in Elems(order) |-> props[key]]
        rmap == MapGet(prop_rename_map, et, EmptyMap)
    IN  IF DOMAIN rmap # {} THEN RenameKeys(order, out, rmap, 1, EmptyMap) ELSE out

(***************************************************************************)
(* core.py : constant and derived augmentation                             *)
(***************************************************************************)
\* variant: the legacy flat keys are merged last
MergedConsts_LegacyLast(et, const_props) ==
    LET flat == {key \in DOMAIN const_props :
                    key # "*" /\ PyStr(key) # et /\ ~IsDict(const_props[key])}
        legacy == [key \in flat |-> const_props[key]]
        gconst == Get(const_props, "*")
        econst == MapGet(const_props, et, None)
        withG == IF IsDict(gconst) THEN gconst.d ELSE EmptyMap
        withE == IF IsDict(econst) THEN Update(withG, econst.d) ELSE withG
    IN  Update(withE, legacy)

\* lines 476-488: legacy flat keys, then the "*" object, then the object of et
MergedConsts(et, const_props) ==
    LET flat == {key \in DOMAIN const_props :
                    key # "*" /\ PyStr(key) # et /\ ~IsDict(const_props[key])}
        legacy == [key \in flat |-> const_props[key]]
        gconst == Get(const_props, "*")
        econst == MapGet(const_props, et, None)
        withG == IF IsDict(gconst) THEN Update(legacy, gconst.d) ELSE legacy
    IN  IF IsDict(econst) THEN Update(withG, econst.d) ELSE withG

\* {k: v for k, v in scope.items() if isinstance(v, dict)}
DictItems(scope) == [key \in {c \in DOMAIN scope : IsDict(scope[c])} |-> scope[key]]

\* lines 496-512
DerivedToApply(et, derived_props) ==
    LET flat == {key \in DOMAIN derived_props :
                    /\ key # "*" /\ PyStr(key) # et
                    /\ IsDict(derived_props[key])
                    /\ DOMAIN derived_props[key].d \cap {"from", "map", "default"} # {}}
        legacy == [key \in flat |-> derived_props[key]]
        gder == Get(derived_props, "*")
        eder == MapGet(derived_props, et, None)
        withG == IF IsDict(gder) THEN Update(legacy, DictItems(gder.d)) ELSE legacy
    IN  IF IsDict(eder) THEN Update(withG, DictItems(eder.d)) ELSE withG

\* str(v) for the values in use
ToText(v) ==
    CASE v.k = "str" -> v.s
      [] v.k = "int" /\ v.n = 42 -> "42"
      [] v.k = "int" /\ v.n = 0 -> "0"
      [] v.k = "int" /\ v.n = 1 -> "1"
      [] v.k = "bool" -> (IF v.n = 1 THEN "True" ELSE "False")
      [] OTHER -> "?"

\* text.strip().lower() in ("1", "true", "yes", "y")
TrueText(t) == t \in {"1", "true", "True", "yes", "YES", "y"}

\* lines 529-551: <<raised, value>>
Coerce(val, coerce) ==
    CASE coerce = PyStr("int") ->
            IF val = None \/ (val.k = "str" /\ Blank(val.s)) \/ ~ToNumber(val)[1]
            THEN <<TRUE, None>> ELSE <<FALSE, PyInt(ToNumber(val)[2])>>
      [] coerce = PyStr("float") ->
            IF val = None \/ (val.k = "str" /\ Blank(val.s)) \/ ~ToNumber(val)[1]
            THEN <<TRUE, None>> ELSE <<FALSE, PyFloat(ToNumber(val)[2])>>
      [] coerce = PyStr("bool") ->
            IF val.k = "str" THEN <<FALSE, PyBool(TrueText(val.s))>>
            ELSE <<FALSE, PyBool(Truthy(val))>>
      [] coerce = PyStr("str") ->
            IF val = None THEN <<FALSE, PyStr("")>> ELSE <<FALSE, PyStr(ToText(val))>>
      [] OTHER -> <<FALSE, val>>

\* eval(expr, {"__builtins__": {}}, {"value": value}) for the expressions in use;
\* any failure keeps the value
_apply_expr(expr, value) ==
    IF expr.k # "str" THEN value
    ELSE CASE expr.s = "value + 1" /\ IsNum(value) ->
                (IF value.k = "float" THEN PyFloat(value.n + 1) ELSE PyInt(value.n + 1))
           [] expr.s = "value > 0" /\ IsNum(value) -> PyBool(value.n > 0)
           [] expr.s = "None" -> None
           [] OTHER -> value

\* lines 515-516: val = _get_by_path(evt, src) if src else None
SourceValue(evt, rule) ==
    IF Truthy(Get(rule, "from")) THEN _get_by_path(evt, Get(rule, "from")) ELSE None

\* lines 518-527: <<mapped, value>> after the lookup in the rule's map
MappedValue(rule, val) ==
    IF IsDict(Get(rule, "map")) /\ val.k = "str" /\ val.s \in DOMAIN Get(rule, "map").d
    THEN <<TRUE, Get(rule, "map").d[val.s]>>
    ELSE <<FALSE, val>>

\* lines 550-551: a coercion that raised gives the rule's default
CoercedOrDefault(rule, co) == IF co[1] THEN Get(rule, "default") ELSE co[2]

\* lines 527-551: coercion, skipped for a mapped value; mv = <<mapped, value>>
CoercedValue(rule, mv) ==
    IF mv[1] \/ ~Truthy(Get(rule, "coerce")) THEN mv
    ELSE <<FALSE, CoercedOrDefault(rule, Coerce(mv[2], Get(rule, "coerce")))>>

\* lines 553-557: the expression, skipped for a mapped value and for None
ExprValue(rule, mv) ==
    IF ~mv[1] /\ Get(rule, "expr") # None /\ mv[2] # None
    THEN _apply_expr(Get(rule, "expr"), mv[2])
    ELSE mv[2]

\* lines 559-561
DefaultedValue(rule, val) ==
    IF val = None /\ "default" \in DOMAIN rule THEN rule["default"] ELSE val

\* lines 515-561: the final value of one derived rule
DerivedValue(evt, rule) ==
    DefaultedValue(rule,
        ExprValue(rule, CoercedValue(rule, MappedValue(rule, SourceValue(evt, rule)))))

(***************************************************************************)
(* core.py : transform_event                                               *)
(***************************************************************************)
TOP_LEVEL_PASSTHROUGH ==
    {"app_version", "library", "platform", "os_name", "os_version",
     "device_brand", "device_manufacturer", "device_model", "device_type",
     "carrier", "country", "region", "city", "dma", "language",
     "price", "quantity", "revenue", "productId", "revenueType",
     "location_lat", "location_lng", "ip", "idfa", "idfv", "adid", "android_id",
     "event_id", "session_id", "insert_id", "group_properties", "groups",
     "user_properties"}

SessionDurationType == "100ms_session_duration_v1.3"

\* lines 454-464: first matching rule wins; a rule whose evaluation raises is skipped
RECURSIVE ApplyRenameRules(_, _, _, _)
ApplyRenameRules(evt, rename_rules, i, et) ==
    IF i > Len(rename_rules) THEN et
    ELSE LET rule == rename_rules[i]
         IN  IF ~IsDict(rule) THEN ApplyRenameRules(evt, rename_rules, i + 1, et)
             ELSE LET when == GetOr(rule.d, "when", PyDict(EmptyMap))
                      to == Get(rule.d, "rename_to")
                  IN  IF Truthy(to) /\ _match_conditions(evt, when) THEN to
                      ELSE ApplyRenameRules(evt, rename_rules, i + 1, et)

\* variant: the rules are evaluated against the event under its renamed type
FinalEventType_RulesSeeRenamed(evt, cfg) ==
    ApplyRenameRules(Put(evt, "event_type",
                         rename_event_type(GetOr(evt, "event_type", PyStr("")), cfg.rename_map)),
                     cfg.rename_rules, 1,
                     rename_event_type(GetOr(evt, "event_type", PyStr("")), cfg.rename_map))

\* lines 450-464
FinalEventType(evt, cfg) ==
    ApplyRenameRules(evt, cfg.rename_rules, 1,
                     rename_event_type(GetOr(evt, "event_type", PyStr("")), cfg.rename_map))

\* lines 470-564: event_properties after projection, constants and derived values
PropsOut(evt, et, cfg) ==
    LET props_in == PyOr(Get(evt, "event_properties"), PyDict(EmptyMap)).d
        filtered == filter_props_for_event(et, props_in, cfg.keep_map, cfg.prop_rename_map)
        withConst == Update(filtered, MergedConsts(et, cfg.const_props))
        rules == DerivedToApply(et, cfg.derived_props)
    IN  Update(withConst, [key \in DOMAIN rules |-> DerivedValue(evt, rules[key].d)])

\* variant: falls back to a wall clock reading when no timestamp is carried
OrigTime_OrNow(evt) ==
    PyOr(PyOr(PyOr(Get(evt, "time"), Get(evt, "server_received_time")),
              Get(evt, "server_upload_time")), PyInt(987654))

\* lines 573-577
OrigTime(evt) ==
    PyOr(PyOr(Get(evt, "time"), Get(evt, "server_received_time")),
         Get(evt, "server_upload_time"))

\* int(v), as <<ok, number>>
IntOf(v) ==
    CASE IsNum(v) -> <<TRUE, v.n>>
      [] v.k = "str" /\ v.s \in DOMAIN NumTable -> <<TRUE, NumTable[v.s]>>
      [] OTHER -> <<FALSE, 0>>

\* lines 621-626
AllowedKeys(et, keep_map) ==
    IF MapHas(keep_map, et) THEN keep_map[et.s]
    ELSE IF "*" \in DOMAIN keep_map THEN keep_map["*"]
    ELSE <<>>

\* lines 634-639
DenyKeys(et, prop_deny_map) ==
    (IF MapHas(prop_deny_map, et) THEN Elems(prop_deny_map[et.s]) ELSE {})
        \cup (IF "*" \in DOMAIN prop_deny_map THEN Elems(prop_deny_map["*"]) ELSE {})

Restrict(f, keys) == [key \in DOMAIN f \cap keys |-> f[key]]

\* The outcome of one call: status is "ok" (an event is returned), "dropped"
\* (None is returned) or "raised"; out is the returned event; evt and fb are
\* the caller's raw event and fallback snapshot as the call leaves them; alias
\* tells whose mapping object the returned user_properties is ("raw", "fb",
\* or "none" for a mapping of its own or no mapping).
Outcome(status, out, evt, fb, alias) ==
    [status |-> status, out |-> out, evt |-> evt, fb |-> fb, alias |-> alias]

\* lines 596-602: whose mapping the outgoing user_properties is: the raw
\* event's ("raw"), the fallback snapshot's ("fb"), or none ("absent")
UserPropsSource(evt, fb) ==
    IF IsDict(Get(evt, "user_properties")) /\ Truthy(Get(evt, "user_properties")) THEN "raw"
    ELSE IF IsDict(fb) /\ Truthy(fb) THEN "fb"
    ELSE IF "user_properties" \in DOMAIN evt THEN "raw"
    ELSE "absent"

UserPropsOf(evt, fb, src) == IF src = "fb" THEN fb ELSE Get(evt, "user_properties")

\* lines 566-568 and 604-618: the outgoing event without its two property mappings
Assemble(evt, cfg, et, out_time_ms) ==
    Update([key \in DOMAIN evt \cap (TOP_LEVEL_PASSTHROUGH \ {"user_properties"}) |-> evt[key]],
           [event_type |-> et,
            user_id |-> IF cfg.force_user_id # None THEN cfg.force_user_id
                        ELSE Get(evt, "user_id"),
            device_id |-> IF cfg.force_device_id # None THEN cfg.force_device_id
                          ELSE Get(evt, "device_id"),
            time |-> PyInt(out_time_ms)])

\* lines 620-631: the second keep pass; gives <<event_properties,
\* user_properties, fresh>>, fresh meaning that user_properties is now a
\* mapping object of its own
KeepPass(ep, up, src, allowed_keys) ==
    IF Len(allowed_keys) > 0 /\ allowed_keys # <<"*">>
    THEN <<Restrict(ep, Elems(allowed_keys)),
           IF src # "absent" /\ IsDict(up) THEN PyDict(Restrict(up.d, Elems(allowed_keys)))
           ELSE up,
           src # "absent" /\ IsDict(up)>>
    ELSE <<ep, up, FALSE>>

\* lines 633-646: the denied keys are popped in place; gives <<event_properties,
\* user_properties, fresh, popped>>
DenyPass(kp, src, deny_keys) ==
    <<PopAll(kp[1], deny_keys),
      IF deny_keys # {} /\ src # "absent" /\ IsDict(kp[2])
      THEN PyDict(PopAll(kp[2].d, deny_keys)) ELSE kp[2],
      kp[3],
      deny_keys # {} /\ src # "absent" /\ IsDict(kp[2])>>

\* line 648, with the caller's objects as the in-place pops leave them
Returned(evt, fb, src, up0, base, dp) ==
    Outcome("ok",
            IF src = "absent" THEN Put(base, "event_properties", PyDict(dp[1]))
            ELSE Put(Put(base, "event_properties", PyDict(dp[1])), "user_properties", dp[2]),
            IF dp[4] /\ ~dp[3] /\ src = "raw" THEN Put(evt, "user_properties", dp[2]) ELSE evt,
            IF dp[4] /\ ~dp[3] /\ src = "fb" THEN dp[2] ELSE fb,
            IF src = "absent" \/ dp[3] \/ ~IsDict(up0) THEN "none" ELSE src)

\* lines 595-648
BuildEvent(evt, cfg, fb, et, out_time_ms) ==
    Returned(evt, fb, UserPropsSource(evt, fb),
             UserPropsOf(evt, fb, UserPropsSource(evt, fb)),
             Assemble(evt, cfg, et, out_time_ms),
             DenyPass(KeepPass(PropsOut(evt, et, cfg),
                               UserPropsOf(evt, fb, UserPropsSource(evt, fb)),
                               UserPropsSource(evt, fb),
                               AllowedKeys(et, cfg.keep_map)),
                      UserPropsSource(evt, fb),
                      DenyKeys(et, cfg.prop_deny_map)))

\* lines 570-593: the timestamp of the source event and the time window
Timed(evt, cfg, fb, et, orig_time) ==
    IF orig_time = None THEN Outcome("dropped", EmptyMap, evt, fb, "none")
    ELSE IF ~IntOf(orig_time)[1] THEN Outcome("raised", EmptyMap, evt, fb, "none")
    ELSE IF /\ Len(cfg.time_window_ms) = 2
            /\ \/ IntOf(orig_time)[2] < cfg.time_window_ms[1]
               \/ IntOf(orig_time)[2] >= cfg.time_window_ms[2]
         THEN Outcome("dropped", EmptyMap, evt, fb, "none")
    ELSE BuildEvent(evt, cfg, fb, et, IntOf(orig_time)[2])

\* lines 450-468: et is the type after the renames
Renamed(evt, cfg, fb, et) ==
    IF GetOr(evt, "event_type", PyStr("")) = PyStr(SessionDurationType)
            /\ et = GetOr(evt, "event_type", PyStr(""))
    THEN Outcome("dropped", EmptyMap, evt, fb, "none")
    ELSE Timed(evt, cfg, fb, et, OrigTime(evt))

\* variant: the deny/allow filter is applied to the renamed type
transform_event_FilterRenamed(evt, cfg, fallback_user_properties) ==
    IF ~should_keep_event(Put(evt, "event_type", FinalEventType(evt, cfg)), cfg.allow, cfg.deny)
    THEN Outcome("dropped", EmptyMap, evt, fallback_user_properties, "none")
    ELSE Renamed(evt, cfg, fallback_user_properties, FinalEventType(evt, cfg))

transform_event(evt, cfg, fallback_user_properties) ==
    IF ~should_keep_event(evt, cfg.allow, cfg.deny)
    THEN Outcome("dropped", EmptyMap, evt, fallback_user_properties, "none")
    ELSE Renamed(evt, cfg, fallback_user_properties, FinalEventType(evt, cfg))

(***************************************************************************)
(* core.py : apply_id_remap                                                *)
(***************************************************************************)
\* counters[key] = counters.get(key, 0) + 1
Bump(counters, key) == Put(counters, key, GetOr(counters, key, 0) + 1)

\* uid in id_map
InMap(id, id_map) == id.k = "str" /\ id.s \in DOMAIN id_map.d

\* lines 71-85; st = [evt, counters, any_unmapped_drop]
RemapUser(st, user_map, scope, unmapped_policy) ==
    LET uid == Get(st.evt, "user_id")
    IN  IF scope \notin {"user_id", "both"} \/ user_map = None THEN st
        ELSE IF uid = None
             THEN [st EXCEPT !.counters = Bump(@, "id_remap_user_id_missing")]
        ELSE IF InMap(uid, user_map)
             THEN [st EXCEPT !.evt = Put(@, "user_id", user_map.d[uid.s]),
                             !.counters = Bump(@, "events_remapped_user_id")]
        ELSE [st EXCEPT !.counters = Bump(@, "unmapped_user_ids_seen"),
                        !.any_unmapped_drop = @ \/ unmapped_policy = "drop"]

\* variant: the device_id is looked up whatever the scope
RemapDevice_AnyScope(st, device_map, scope, unmapped_policy) ==
    LET did == Get(st.evt, "device_id")
    IN  IF device_map = None THEN st
        ELSE IF did = None
             THEN [st EXCEPT !.counters = Bump(@, "id_remap_device_id_missing")]
        ELSE IF InMap(did, device_map)
             THEN [st EXCEPT !.evt = Put(@, "device_id", device_map.d[did.s]),
                             !.counters = Bump(@, "events_remapped_device_id")]
        ELSE [st EXCEPT !.counters = Bump(@, "unmapped_device_ids_seen"),
                        !.any_unmapped_drop = @ \/ unmapped_policy = "drop"]

\* lines 87-101
RemapDevice(st, device_map, scope, unmapped_policy) ==
    LET did == Get(st.evt, "device_id")
    IN  IF scope \notin {"device_id", "both"} \/ device_map = None THEN st
        ELSE IF did = None
             THEN [st EXCEPT !.counters = Bump(@, "id_remap_device_id_missing")]
        ELSE IF InMap(did, device_map)
             THEN [st EXCEPT !.evt = Put(@, "device_id", device_map.d[did.s]),
                             !.counters = Bump(@, "events_remapped_device_id")]
        ELSE [st EXCEPT !.counters = Bump(@, "unmapped_device_ids_seen"),
                        !.any_unmapped_drop = @ \/ unmapped_policy = "drop"]

\* variant: the event is dropped as soon as its user_id is found unmapped
apply_id_remap_EarlyDrop(evt, user_map, device_map, scope, unmapped_policy, counters) ==
    LET s0 == [evt |-> evt, counters |-> counters, any_unmapped_drop |-> FALSE]
        s1 == RemapUser(s0, user_map, scope, unmapped_policy)
        s2 == IF s1.any_unmapped_drop THEN s1
              ELSE RemapDevice(s1, device_map, scope, unmapped_policy)
    IN  IF s2.any_unmapped_drop
        THEN [evt |-> s2.evt, dropped |-> TRUE,
              counters |-> Bump(s2.counters, "events_dropped_unmapped")]
        ELSE [evt |-> s2.evt, dropped |-> FALSE, counters |-> s2.counters]

\* lines 45-109: evt is rewritten in place; dropped means None is returned
apply_id_remap(evt, user_map, device_map, scope, unmapped_policy, counters) ==
    LET s0 == [evt |-> evt, counters |-> counters, any_unmapped_drop |-> FALSE]
        s1 == RemapUser(s0, user_map, scope, unmapped_policy)
        s2 == RemapDevice(s1, device_map, scope, unmapped_policy)
    IN  IF s2.any_unmapped_drop
        THEN [evt |-> s2.evt, dropped |-> TRUE,
              counters |-> Bump(s2.counters, "events_dropped_unmapped")]
        ELSE [evt |-> s2.evt, dropped |-> FALSE, counters |-> s2.counters]

(***************************************************************************)
(* core.py : send_batch                                                    *)
(***************************************************************************)
MaxRetriesBound == 5

\* random.random() is drawn from a grid of JitterSteps points of [0, 1)
JitterSteps == 10

Jitters == {0, JitterSteps - 1}

RECURSIVE Pow(_, _)
Pow(b, e) == IF e <= 0 THEN 1 ELSE b * Pow(b, e - 1)

\* one second, in the unit durations are counted in: backoff is the fraction
\* backoff[1] / backoff[2], so backoff ** tries is a whole number of units
\* for every tries <= MaxRetriesBound
SecondUnits(backoff) == Pow(backoff[2], MaxRetriesBound) * JitterSteps

\* variant: the backoff is not raised to the number of tries
sleep_s_NoExponent(backoff, tries, jitter) ==
    backoff[1] * Pow(backoff[2], MaxRetriesBound - 1) * JitterSteps
        + jitter * Pow(backoff[2], MaxRetriesBound)

\* line 661: (backoff ** tries) + random.random(), in units
sleep_s(backoff, tries, jitter) ==
    Pow(backoff[1], tries) * Pow(backoff[2], MaxRetriesBound - tries) * JitterSteps
        + jitter * Pow(backoff[2], MaxRetriesBound)

\* requests.Response.ok
ResponseOk(status_code) == ~(status_code >= 400 /\ status_code < 600)

\* variant: 400 is treated as transient too
RetryableStatus_With400 == {400, 408, 429, 500, 502, 503, 504}

\* line 660
RetryableStatus == {408, 429, 500, 502, 503, 504}

\* variant: one retry too many
ShouldRetry_OffByOne(status_code, tries, max_retries) ==
    status_code \in RetryableStatus /\ tries <= max_retries

\* line 660
ShouldRetry(status_code, tries, max_retries) ==
    status_code \in RetryableStatus /\ tries < max_retries

(***************************************************************************)
(* runner.py                                                               *)
(***************************************************************************)
\* lines 24-28; sets = [users, devices]
_mtu_sets_add(sets, evt, exclude_null) ==
    LET u == Get(evt, "user_id")
        d == Get(evt, "device_id")
    IN  [users |-> IF Truthy(u) /\ (~exclude_null \/ u # PyStr("null"))
                   THEN sets.users \cup {ToText(u)} ELSE sets.users,
         devices |-> IF Truthy(d) /\ (~exclude_null \/ d # PyStr("null"))
                     THEN sets.devices \cup {ToText(d)} ELSE sets.devices]

\* str.lower() of the strategy names in use
LowerStrategy(t) ==
    CASE t = "USER_ID" -> "user_id"
      [] t = "Device_Id" -> "device_id"
      [] t = "Union" -> "union"
      [] OTHER -> t

\* variant: the union strategy adds the sizes of the two sets
_mtu_estimate_SumOfSets(user_ids, device_ids, strategy) ==
    LET s == LowerStrategy(IF strategy = "" THEN "union" ELSE strategy)
    IN  CASE s = "user_id" -> Cardinality(user_ids)
          [] s = "device_id" -> Cardinality(device_ids)
          [] OTHER -> Cardinality(user_ids) + Cardinality(device_ids)

\* lines 30-34
_mtu_estimate(user_ids, device_ids, strategy) ==
    LET s == LowerStrategy(IF strategy = "" THEN "union" ELSE strategy)
    IN  CASE s = "user_id" -> Cardinality(user_ids)
          [] s = "device_id" -> Cardinality(device_ids)
          [] OTHER -> Cardinality(user_ids \cup device_ids)

\* lines 57-61: the maps as run_migration sets them up from the loaded tables
\* (None when no path is configured)
RunUserMap(cfg) == cfg.user_table

RunDeviceMap(cfg) ==
    IF cfg.device_table # None THEN cfg.device_table
    ELSE IF Truthy(RunUserMap(cfg)) /\ cfg.remap_scope \in {"device_id", "both"}
         THEN RunUserMap(cfg)
    ELSE None

\* lines 95-110: the arguments run_migration passes to transform_event
TransformArgs(cfg) ==
    [allow |-> cfg.allow, deny |-> cfg.deny, rename_map |-> cfg.rename_map,
     keep_map |-> cfg.keep_map, prop_rename_map |-> cfg.prop_rename_map,
     time_strategy |-> cfg.time_strategy,
     force_user_id |-> cfg.force_user_id, force_device_id |-> cfg.force_device_id,
     const_props |-> cfg.const_props, derived_props |-> cfg.derived_props,
     rename_rules |-> cfg.rename_rules,
     time_window_ms |-> <<>>, prop_deny_map |-> EmptyMap]

\* lines 69-77: caches = [by_user, by_device]
UpdateCaches(caches, evt) ==
    LET src_up == Get(evt, "user_properties")
        uid == Get(evt, "user_id")
        did == Get(evt, "device_id")
    IN  IF IsDict(src_up) /\ Truthy(src_up)
        THEN [by_user |-> IF Truthy(uid) THEN Put(caches.by_user, ToText(uid), src_up)
                          ELSE caches.by_user,
              by_device |-> IF Truthy(did) THEN Put(caches.by_device, ToText(did), src_up)
                            ELSE caches.by_device]
        ELSE caches

\* variant: the device-id cache is consulted before the user-id cache
FallbackFor_DeviceFirst(caches, evt) ==
    LET up == Get(evt, "user_properties")
        uid == Get(evt, "user_id")
        did == Get(evt, "device_id")
    IN  IF IsDict(up) /\ Truthy(up) THEN None
        ELSE IF Truthy(did) /\ ToText(did) \in DOMAIN caches.by_device
             THEN caches.by_device[ToText(did)]
        ELSE IF Truthy(uid) /\ ToText(uid) \in DOMAIN caches.by_user
             THEN caches.by_user[ToText(uid)]
        ELSE None

\* lines 82-93
FallbackFor(caches, evt) ==
    LET up == Get(evt, "user_properties")
        uid == Get(evt, "user_id")
        did == Get(evt, "device_id")
    IN  IF IsDict(up) /\ Truthy(up) THEN None
        ELSE IF Truthy(uid) /\ ToText(uid) \in DOMAIN caches.by_user
             THEN caches.by_user[ToText(uid)]
        ELSE IF Truthy(did) /\ ToText(did) \in DOMAIN caches.by_device
             THEN caches.by_device[ToText(did)]
        ELSE None

(***************************************************************************)
(* State                                                                   *)
(***************************************************************************)
VARIABLES
    \* a caller of transform_event: the raw event object, the rule set, the
    \* fallback snapshot object it passes, and the outcomes of its calls
    t_evt, t_cfg, t_fb, t_results,
    \* a caller of apply_id_remap: the maps and settings, the counters dict,
    \* the number of calls made and the last call
    m_cfg, m_counters, m_ncalls, m_last,
    \* one call of send_batch: position, tries, its arguments max_retries,
    \* backoff and events, and the statuses received and sleeps made so far
    sb_pc, sb_tries, sb_max_retries, sb_backoff, sb_events, sb_statuses, sb_sleeps,
    \* the destination: the status codes it answers with and the batches it
    \* has acknowledged
    dest, delivered,
    \* run_migration: the configuration, the source stream, the position in
    \* the code, and the locals of lines 38-63
    cfg, stream, pc,
    total_in, total_kept, total_sent, unique_ids, buf, batches, sample_events,
    last_user_props, remap_counters,
    \* the usage estimate of the summary (line 175)
    mtu

tvars == <<t_evt, t_cfg, t_fb, t_results>>

mvars == <<m_cfg, m_counters, m_ncalls, m_last>>

sbvars == <<sb_pc, sb_tries, sb_max_retries, sb_backoff, sb_events, sb_statuses, sb_sleeps>>

destvars == <<dest, delivered>>

runvars == <<cfg, stream, pc, total_in, total_kept, total_sent, unique_ids, buf, batches,
             sample_events, last_user_props, remap_counters, mtu>>

vars == <<tvars, mvars, sbvars, destvars, runvars>>

(***************************************************************************)
(* Inputs                                                                  *)
(***************************************************************************)
MaxCalls == 2

\* marks a key that the source line does not carry
Absent == PyVal("absent", 0, "", EmptyMap)

Opt(key, v) == IF v = Absent THEN EmptyMap ELSE (key :> v)

MkEvt(et, time, srt, sut, uid, did, ep, up) ==
    Opt("event_type", et) @@ Opt("time", time) @@ Opt("server_received_time", srt)
        @@ Opt("server_upload_time", sut) @@ Opt("user_id", uid) @@ Opt("device_id", did)
        @@ Opt("event_properties", ep) @@ Opt("user_properties", up)

\* the arguments run_migration passes when the configuration is empty
BaseCfg ==
    [allow |-> <<>>, deny |-> <<>>, rename_map |-> EmptyMap,
     keep_map |-> ("*" :> <<"*">>), prop_rename_map |-> EmptyMap,
     time_strategy |-> "prefer_client_fallback_server_received",
     force_user_id |-> None, force_device_id |-> None,
     const_props |-> EmptyMap, derived_props |-> EmptyMap, rename_rules |-> <<>>,
     time_window_ms |-> <<>>, prop_deny_map |-> EmptyMap]

Rule(when, to) == PyDict(("when" :> PyDict(when)) @@ ("rename_to" :> PyStr(to)))

IsoA == PyStr("1970-01-01T00:00:02Z")

IsoB == PyStr("1970-01-01 00:00:03")

\* event selection and renaming
FilterEvents ==
    {MkEvt(et, time, Absent, Absent, PyStr("u1"), Absent,
           PyDict("x" :> PyStr("42")), Absent) :
        et \in {PyStr("a"), PyStr("b"), PyStr(SessionDurationType), Absent},
        time \in {PyInt(1000), Absent}}

FilterCfgs ==
    {[BaseCfg EXCEPT !.allow = al, !.deny = de, !.rename_map = rm, !.rename_rules = rr] :
        al \in {<<>>, <<"a">>, <<"b">>, <<"a", "b">>, <<"c">>},
        de \in {<<>>, <<"a">>, <<"b", SessionDurationType>>},
        rm \in {EmptyMap, "a" :> PyStr("b"), "a" :> PyStr("c"), "b" :> PyStr("a")},
        rr \in {<<>>,
                <<Rule("event_properties.x" :> PyStr("42"), "b")>>,
                <<Rule("event_type" :> PyStr("a"), "c"),
                  Rule("event_type" :> PyStr("b"), "a")>>,
                <<Rule("event_type" :> PyStr(SessionDurationType), "a")>>}}

\* timestamps
TimeEvents ==
    {MkEvt(PyStr("a"), time, srt, sut, PyStr("u1"), Absent, Absent, Absent) :
        time \in {Absent, PyInt(0), PyInt(1000)},
        srt \in {Absent, IsoA, PyStr("garbage"), PyStr("1500")},
        sut \in {Absent, IsoB, PyStr("garbage")}}

TimeStrategies ==
    {"client", "server_received", "server_upload",
     "prefer_client_fallback_server_received", "prefer_client_fallback_server_upload"}

TimeCfgs ==
    {[BaseCfg EXCEPT !.time_strategy = st, !.time_window_ms = win] :
        st \in TimeStrategies, win \in {<<>>, <<1000, 2500>>}}

\* properties
DerivedFrom(path) == PyDict("from" :> PyStr(path))

PropEvents ==
    {MkEvt(et, PyInt(1000), Absent, Absent, PyStr("u1"), PyStr("d1"), ep, up) :
        et \in {PyStr("a"), PyStr("b")},
        ep \in {Absent, PyDict(("x" :> PyStr("42")) @@ ("y" :> PyInt(5)))},
        up \in {Absent, PyDict(EmptyMap), PyDict("x" :> PyInt(1)),
                PyDict(("x" :> PyInt(1)) @@ ("y" :> PyInt(2)))}}

PropCfgs ==
    {[BaseCfg EXCEPT !.prop_deny_map = dm, !.keep_map = km, !.derived_props = dp,
                     !.rename_rules = rr] :
        dm \in {EmptyMap, "*" :> <<"x">>, ("a" :> <<"x">>) @@ ("*" :> <<"y">>),
                "b" :> <<"y">>},
        km \in {"*" :> <<"*">>, "*" :> <<"y", "k">>, "a" :> <<"x", "k">>},
        dp \in {EmptyMap,
                "*" :> PyDict("k" :> DerivedFrom("user_properties.x")),
                "k" :> PyDict(("from" :> PyStr("event_properties.x"))
                              @@ ("coerce" :> PyStr("int")) @@ ("default" :> PyInt(0)))},
        rr \in {<<>>, <<Rule("user_properties.x" :> PyDict("exists" :> PyBool(TRUE)), "b")>>}}

PropFallbacks == {None, PyDict("y" :> PyInt(2)), PyDict("x" :> PyInt(5))}

(***************************************************************************)
(* A caller of transform_event                                             *)
(***************************************************************************)
IdleTransform == t_evt = EmptyMap /\ t_cfg = BaseCfg /\ t_fb = None /\ t_results = <<>>

IdleRemap == m_cfg = EmptyMap /\ m_counters = EmptyMap /\ m_ncalls = 0 /\ m_last = EmptyMap

IdleSend ==
    /\ sb_pc = "idle" /\ sb_tries = 0 /\ sb_max_retries = 0 /\ sb_backoff = <<3, 2>>
    /\ sb_events = <<>> /\ sb_statuses = <<>> /\ sb_sleeps = <<>>
    /\ dest = {} /\ delivered = <<>>

IdleRun ==
    /\ cfg = EmptyMap /\ stream = <<>> /\ pc = "none"
    /\ total_in = 0 /\ total_kept = 0 /\ total_sent = 0
    /\ unique_ids = [users |-> {}, devices |-> {}]
    /\ buf = <<>> /\ batches = <<>> /\ sample_events = <<>>
    /\ last_user_props = [by_user |-> EmptyMap, by_device |-> EmptyMap]
    /\ remap_counters = EmptyMap /\ mtu = 0

InitTransform ==
    /\ IdleRemap /\ IdleSend /\ IdleRun
    /\ t_results = <<>>
    /\ \/ t_evt \in FilterEvents /\ t_cfg \in FilterCfgs /\ t_fb = None
       \/ t_evt \in TimeEvents /\ t_cfg \in TimeCfgs /\ t_fb = None
       \/ t_evt \in PropEvents /\ t_cfg \in PropCfgs /\ t_fb \in PropFallbacks

\* earlier outcomes whose user_properties is the raw event's or the snapshot's
\* mapping object show that object as it is now
Realias(results, evt, fb) ==
    [i \in 1..Len(results) |->
        CASE results[i].alias = "raw" ->
                [results[i] EXCEPT !.out = Put(@, "user_properties", evt["user_properties"])]
          [] results[i].alias = "fb" ->
                [results[i] EXCEPT !.out = Put(@, "user_properties", fb)]
          [] OTHER -> results[i]]

\* the caller keeps the outcome r of its call
TransformReturns(r) ==
    /\ t_evt' = r.evt
    /\ t_fb' = r.fb
    /\ t_results' = Append(Realias(t_results, r.evt, r.fb),
                           [status |-> r.status, out |-> r.out, alias |-> r.alias,
                            given |-> t_evt, given_fb |-> t_fb])

\* new_evt = transform_event(evt, ..., fallback_user_properties=fb, ...)
TransformCall ==
    /\ Len(t_results) < MaxCalls
    /\ TransformReturns(transform_event(t_evt, t_cfg, t_fb))
    /\ UNCHANGED <<t_cfg, mvars, sbvars, destvars, runvars>>

NextTransform == TransformCall

SpecTransform == InitTransform /\ [][NextTransform]_vars

(***************************************************************************)
(* A caller of apply_id_remap                                              *)
(***************************************************************************)
MaxRemapCalls == 2

\* an event as transform_event returns it
OutEvent(uid, did) ==
    [event_type |-> PyStr("a"), event_properties |-> PyDict(EmptyMap),
     user_id |-> uid, device_id |-> did, time |-> PyInt(1000)]

RemapEvents ==
    {OutEvent(uid, did) : uid \in {None, PyStr("u1"), PyStr("u2")},
                          did \in {None, PyStr("d1"), PyStr("d2")}}

RemapCfgs ==
    [user_map : {None, PyDict(EmptyMap), PyDict("u1" :> PyStr("n1"))},
     device_map : {None, PyDict("d1" :> PyStr("m1")),
                   PyDict(("d1" :> PyStr("m1")) @@ ("d2" :> PyStr("m2")))},
     scope : {"user_id", "device_id", "both"},
     unmapped_policy : {"keep", "drop"}]

InitRemap ==
    /\ IdleTransform /\ IdleSend /\ IdleRun
    /\ m_cfg \in RemapCfgs
    /\ m_counters = EmptyMap
    /\ m_ncalls = 0
    /\ m_last = EmptyMap

\* new_evt = apply_id_remap(new_evt, ..., counters=m_counters)
RemapCall ==
    /\ m_ncalls < MaxRemapCalls
    /\ \E e \in RemapEvents :
        LET r == apply_id_remap(e, m_cfg.user_map, m_cfg.device_map, m_cfg.scope,
                                m_cfg.unmapped_policy, m_counters)
        IN  /\ m_counters' = r.counters
            /\ m_ncalls' = m_ncalls + 1
            /\ m_last' = [given |-> e, evt |-> r.evt, dropped |-> r.dropped,
                          before |-> m_counters]
    /\ UNCHANGED <<m_cfg, tvars, sbvars, destvars, runvars>>

NextRemap == RemapCall

SpecRemap == InitRemap /\ [][NextRemap]_vars

(***************************************************************************)
(* send_batch, step by step                                                *)
(***************************************************************************)
\* lines 652-654
StartSend(events, max_retries, backoff) ==
    /\ sb_pc' = "post"
    /\ sb_tries' = 0
    /\ sb_max_retries' = max_retries
    /\ sb_backoff' = backoff
    /\ sb_events' = events
    /\ sb_statuses' = <<>>
    /\ sb_sleeps' = <<>>

\* runner.py lines 154-158 and 166-175: what run_migration does when
\* send_batch returns
AfterSendReturns ==
    /\ total_sent' = (IF pc \in {"send", "flush"} THEN total_sent + Len(buf) ELSE total_sent)
    /\ batches' = (IF pc \in {"send", "flush"} THEN Append(batches, Len(buf)) ELSE batches)
    /\ buf' = (IF pc = "send" THEN <<>> ELSE buf)
    /\ pc' = (CASE pc = "send" -> "loop" [] pc = "flush" -> "done" [] OTHER -> pc)
    /\ mtu' = (IF pc = "flush"
               THEN _mtu_estimate(unique_ids.users, unique_ids.devices, cfg.mtu_strategy)
               ELSE mtu)

\* lines 656-666: one pass of the while loop; the destination answers with
\* status_code
SendAttempt ==
    /\ sb_pc = "post"
    /\ \E status_code \in dest :
        /\ sb_tries' = sb_tries + 1
        /\ sb_statuses' = Append(sb_statuses, status_code)
        /\ \/ /\ ResponseOk(status_code)
              /\ sb_pc' = "returned"
              /\ delivered' = Append(delivered, sb_events)
              /\ AfterSendReturns
              /\ UNCHANGED sb_sleeps
           \/ /\ ~ResponseOk(status_code)
              /\ ShouldRetry(status_code, sb_tries + 1, sb_max_retries)
              /\ \E jitter \in Jitters :
                    sb_sleeps' = Append(sb_sleeps, sleep_s(sb_backoff, sb_tries + 1, jitter))
              /\ sb_pc' = "sleep"
              /\ UNCHANGED <<delivered, total_sent, batches, buf, pc, mtu>>
           \/ /\ ~ResponseOk(status_code)
              /\ ~ShouldRetry(status_code, sb_tries + 1, sb_max_retries)
              /\ sb_pc' = "raised"
              /\ pc' = (IF pc \in {"send", "flush"} THEN "aborted" ELSE pc)
              /\ UNCHANGED <<delivered, total_sent, batches, buf, mtu, sb_sleeps>>
    /\ UNCHANGED <<sb_max_retries, sb_backoff, sb_events, dest, tvars, mvars,
                   cfg, stream, total_in, total_kept, unique_ids, sample_events,
                   last_user_props, remap_counters>>

\* line 664: time.sleep(sleep_s) is over
SendWake ==
    /\ sb_pc = "sleep"
    /\ sb_pc' = "post"
    /\ UNCHANGED <<sb_tries, sb_max_retries, sb_backoff, sb_events, sb_statuses, sb_sleeps,
                   destvars, tvars, mvars, runvars>>

\* the sets of status codes a destination answers with
Destinations ==
    {{200, 503}, {503}, {200, 400, 429}, {408, 500, 404}, {200, 502, 504}}

Backoffs == {<<3, 2>>, <<2, 1>>}

\* a direct caller of send_batch
InitSend ==
    /\ IdleTransform /\ IdleRemap /\ IdleRun
    /\ dest \in Destinations
    /\ delivered = <<>>
    /\ sb_pc = "post"
    /\ sb_tries = 0
    /\ sb_max_retries \in 0..MaxRetriesBound
    /\ sb_backoff \in Backoffs
    /\ sb_events = <<[src |-> 1, evt |-> OutEvent(PyStr("u1"), None)]>>
    /\ sb_statuses = <<>>
    /\ sb_sleeps = <<>>

NextSend == SendAttempt \/ SendWake

SpecSend == InitSend /\ [][NextSend]_vars

\* the destination answers every request and a sleep ends
FairSpecSend == SpecSend /\ WF_vars(SendAttempt) /\ WF_vars(SendWake)

(***************************************************************************)
(* run_migration                                                           *)
(***************************************************************************)
MaxEvents == 3

MaxBatchSize == 2

\* variant: the buffer is sent once it holds more than batch_size events
Buffer_FlushWhenOver(newbuf) ==
    /\ buf' = newbuf
    /\ IF Len(newbuf) > cfg.batch_size
       THEN pc' = "send" /\ StartSend(newbuf, cfg.max_retries, cfg.backoff)
       ELSE pc' = "loop" /\ UNCHANGED sbvars

\* lines 147-158: the kept event is buffered, and a full buffer is sent
Buffer(newbuf) ==
    /\ buf' = newbuf
    /\ IF Len(newbuf) >= cfg.batch_size
       THEN pc' = "send" /\ StartSend(newbuf, cfg.max_retries, cfg.backoff)
       ELSE pc' = "loop" /\ UNCHANGED sbvars

\* variant: the kept event is buffered in dry-run mode too
Keep_IgnoreDryRun(new_evt) ==
    /\ total_kept' = total_kept + 1
    /\ sample_events' = (IF Len(sample_events) < cfg.sample_limit
                         THEN Append(sample_events, new_evt) ELSE sample_events)
    /\ unique_ids' = _mtu_sets_add(unique_ids, new_evt, cfg.exclude_null)
    /\ Buffer(Append(buf, [src |-> total_in + 1, evt |-> new_evt]))

\* lines 129-158: the event survived the transformation and the remap
Keep(new_evt) ==
    /\ total_kept' = total_kept + 1
    /\ sample_events' = (IF Len(sample_events) < cfg.sample_limit
                         THEN Append(sample_events, new_evt) ELSE sample_events)
    /\ unique_ids' = _mtu_sets_add(unique_ids, new_evt, cfg.exclude_null)
    /\ IF cfg.dry_run THEN UNCHANGED <<buf, pc, sbvars>>
       ELSE Buffer(Append(buf, [src |-> total_in + 1, evt |-> new_evt]))

\* lines 111-112 and 124-127: continue; raised tells that transform_event raised,
\* which ends the run
Skip(raised) ==
    /\ pc' = (IF raised THEN "crashed" ELSE "loop")
    /\ UNCHANGED <<total_kept, sample_events, unique_ids, buf, sbvars>>

\* variant: an event that apply_id_remap dropped goes on down the loop
AfterRemap_KeepDropped(m) ==
    /\ remap_counters' = m.counters
    /\ Keep(m.evt)

\* lines 124-127: m is what apply_id_remap gave
AfterRemap(m) ==
    /\ remap_counters' = m.counters
    /\ IF m.dropped THEN Skip(FALSE) ELSE Keep(m.evt)

\* lines 111-127: t is the outcome of transform_event
AfterTransform(t) ==
    IF t.status # "ok" THEN Skip(t.status = "raised") /\ UNCHANGED remap_counters
    ELSE IF Truthy(RunUserMap(cfg)) \/ Truthy(RunDeviceMap(cfg))
         THEN AfterRemap(apply_id_remap(t.out, RunUserMap(cfg), RunDeviceMap(cfg),
                                        cfg.remap_scope, cfg.unmapped_policy, remap_counters))
    ELSE Keep(t.out) /\ UNCHANGED remap_counters

\* lines 68-110: the caches, the fallback snapshot and the call of transform_event
Transform(evt, caches) ==
    /\ last_user_props' = caches
    /\ AfterTransform(transform_event(evt, TransformArgs(cfg), FallbackFor(caches, evt)))

\* lines 65-158: one pass of the for loop over the source events
ReadEvent ==
    /\ pc = "loop"
    /\ total_in < Len(stream)
    /\ total_in' = total_in + 1
    /\ Transform(stream[total_in + 1], UpdateCaches(last_user_props, stream[total_in + 1]))
    /\ UNCHANGED <<cfg, stream, total_sent, batches, mtu, destvars, tvars, mvars>>

\* lines 160-175: the source is exhausted
EndOfStream ==
    /\ pc = "loop"
    /\ total_in = Len(stream)
    /\ IF ~cfg.dry_run /\ buf # <<>>
       THEN /\ pc' = "flush"
            /\ StartSend(buf, cfg.max_retries, cfg.backoff)
            /\ UNCHANGED mtu
       ELSE /\ pc' = "done"
            /\ mtu' = _mtu_estimate(unique_ids.users, unique_ids.devices, cfg.mtu_strategy)
            /\ UNCHANGED sbvars
    /\ UNCHANGED <<cfg, stream, total_in, total_kept, total_sent, unique_ids, buf, batches,
                   sample_events, last_user_props, remap_counters, destvars, tvars, mvars>>

RunBase ==
    [allow |-> <<>>, deny |-> <<>>, rename_map |-> EmptyMap,
     keep_map |-> ("*" :> <<"*">>), prop_rename_map |-> EmptyMap,
     time_strategy |-> "prefer_client_fallback_server_received",
     force_user_id |-> None, force_device_id |-> None,
     const_props |-> EmptyMap, derived_props |-> EmptyMap, rename_rules |-> <<>>,
     dry_run |-> FALSE, batch_size |-> 500, max_retries |-> 5, backoff |-> <<3, 2>>,
     user_table |-> None, device_table |-> None, remap_scope |-> "user_id",
     unmapped_policy |-> "keep", mtu_strategy |-> "union", exclude_null |-> TRUE,
     sample_limit |-> 20]

RunCfgs ==
    {[RunBase EXCEPT !.dry_run = dr, !.batch_size = bs, !.max_retries = mr,
                     !.user_table = ut, !.unmapped_policy = up, !.deny = de] :
        dr \in BOOLEAN, bs \in 1..MaxBatchSize, mr \in {1, 2},
        ut \in {None, PyDict("u1" :> PyStr("n1"))},
        up \in {"keep", "drop"},
        de \in {<<>>, <<"b">>}}

RunEvents ==
    {MkEvt(PyStr("a"), PyInt(1000), Absent, Absent, PyStr("u1"), PyStr("d1"), Absent,
           PyDict("x" :> PyInt(1))),
     MkEvt(PyStr("a"), PyInt(1000), Absent, IsoB, PyStr("u1"), Absent, Absent, Absent),
     MkEvt(PyStr("b"), PyInt(1000), Absent, Absent, PyStr("u2"), PyStr("d1"), Absent, Absent),
     MkEvt(PyStr("a"), Absent, Absent, Absent, PyStr("u2"), Absent, Absent, Absent),
     MkEvt(PyStr("a"), Absent, IsoA, Absent, PyStr("u1"), Absent, Absent, Absent)}

Streams == UNION {[1..n -> RunEvents] : n \in 0..MaxEvents}

InitRun ==
    /\ IdleTransform /\ IdleRemap
    /\ cfg \in RunCfgs
    /\ stream \in Streams
    /\ pc = "loop"
    /\ total_in = 0 /\ total_kept = 0 /\ total_sent = 0
    /\ unique_ids = [users |-> {}, devices |-> {}]
    /\ buf = <<>> /\ batches = <<>> /\ sample_events = <<>>
    /\ last_user_props = [by_user |-> EmptyMap, by_device |-> EmptyMap]
    /\ remap_counters = EmptyMap
    /\ mtu = 0
    /\ sb_pc = "idle" /\ sb_tries = 0 /\ sb_max_retries = 0 /\ sb_backoff = <<3, 2>>
    /\ sb_events = <<>> /\ sb_statuses = <<>> /\ sb_sleeps = <<>>
    /\ dest = {200, 400, 503}
    /\ delivered = <<>>

NextRun == ReadEvent \/ EndOfStream \/ SendAttempt \/ SendWake

SpecRun == InitRun /\ [][NextRun]_vars

(***************************************************************************)
(* Properties of transform_event                                           *)
(***************************************************************************)
Calls == DOMAIN t_results

OriginalType(i) == Get(t_results[i].given, "event_type")

\* C1: an event whose original event_type is in the deny list is dropped,
\* whatever the allow list, the rename map and the rename rules contain.
C1_DenyAlwaysDrops ==
    \A i \in Calls : InList(OriginalType(i), t_cfg.deny) => t_results[i].status = "dropped"

\* a denied type that the allow list names, and that was dropped
C1_Witness ==
    \E i \in Calls :
        /\ InList(OriginalType(i), t_cfg.deny)
        /\ InList(OriginalType(i), t_cfg.allow)
        /\ t_results[i].status = "dropped"

\* C2: with a non-empty allow list an event whose original event_type is not
\* in it is dropped, even if a rename turns the type into an allowed name; an
\* event whose original type is allowed fares exactly as it would without any
\* allow list, even if its renamed type is not in the allow list.
C2_AllowOnOriginalType ==
    \A i \in Calls :
        LET r == t_results[i]
            without == transform_event(r.given, [t_cfg EXCEPT !.allow = <<>>], r.given_fb)
        IN  Len(t_cfg.allow) > 0 =>
                IF InList(OriginalType(i), t_cfg.allow)
                THEN r.status = without.status
                ELSE r.status = "dropped"

\* a type outside the allow list whose renamed type is allowed, dropped
C2_Witness ==
    \E i \in Calls :
        /\ Len(t_cfg.allow) > 0
        /\ ~InList(OriginalType(i), t_cfg.allow)
        /\ ~InList(OriginalType(i), t_cfg.deny)
        /\ InList(FinalEventType(t_results[i].given, t_cfg), t_cfg.allow)
        /\ OrigTime(t_results[i].given) # None
        /\ t_results[i].status = "dropped"

\* C3: two calls in a row with the same rule set and the same raw event
\* object return identical results.
C3_Idempotent ==
    Len(t_results) >= 2 =>
        /\ t_results[1].status = t_results[2].status
        /\ t_results[1].out = t_results[2].out

TimeFields == {"time", "server_received_time", "server_upload_time"}

\* the raw event's own timestamps, as numbers
SourceTimes(evt) ==
    {IntOf(evt[f])[2] : f \in {g \in TimeFields \cap DOMAIN evt : IntOf(evt[g])[1]}}
        \cup {parse_iso_to_ms(evt[f]).n :
                f \in {g \in TimeFields \cap DOMAIN evt : parse_iso_to_ms(evt[g]) # None}}

ClientMs(evt) == IF Get(evt, "time").k = "int" THEN Get(evt, "time") ELSE None

ServerReceivedMs(evt) == parse_iso_to_ms(Get(evt, "server_received_time"))

ServerUploadMs(evt) == parse_iso_to_ms(Get(evt, "server_upload_time"))

FirstPresent(a, b) == IF a # None THEN a ELSE b

\* the configured strategy's resolution order
ResolutionOrder(evt, strategy) ==
    CASE strategy = "client" -> ClientMs(evt)
      [] strategy = "server_received" -> FirstPresent(ServerReceivedMs(evt), ClientMs(evt))
      [] strategy = "server_upload" -> FirstPresent(ServerUploadMs(evt), ClientMs(evt))
      [] strategy = "prefer_client_fallback_server_received" ->
            FirstPresent(ClientMs(evt), ServerReceivedMs(evt))
      [] OTHER -> FirstPresent(ClientMs(evt), ServerUploadMs(evt))

\* C5: the time of a returned event is the value chosen by the configured
\* strategy's resolution order over (client, server_received, server_upload).
C5_TimeFollowsStrategy ==
    \A i \in Calls :
        LET r == t_results[i]
        IN  (r.status = "ok" /\ ResolutionOrder(r.given, t_cfg.time_strategy) # None)
                => r.out.time = ResolutionOrder(r.given, t_cfg.time_strategy)

\* C6: a textual server timestamp never makes the call fail: without a client
\* time, parsable text resolves to its epoch milliseconds, unparsable text
\* counts as absent, and the call returns an event or drops it.
C6_TextTimeNeverRaises ==
    \A i \in Calls :
        LET r == t_results[i]
            recv == ServerReceivedMs(r.given)
        IN  /\ r.status # "raised"
            /\ ("time" \notin DOMAIN r.given /\ recv # None /\ r.status = "ok")
                    => r.out.time = recv

(***************************************************************************)
(* Properties of send_batch and of the run                                 *)
(***************************************************************************)
\* the status codes the interface names as retryable
TransientCodes == {408, 429, 500, 502, 503, 504}

Max(a, b) == IF a >= b THEN a ELSE b

RECURSIVE SumSeq(_)
SumSeq(q) == IF q = <<>> THEN 0 ELSE Head(q) + SumSeq(Tail(q))

\* the responses so far: k retryable failures, then a success
RetriedThenSucceeded ==
    /\ Len(sb_statuses) >= 1
    /\ ResponseOk(sb_statuses[Len(sb_statuses)])
    /\ \A i \in 1..(Len(sb_statuses) - 1) : sb_statuses[i] \in TransientCodes
    /\ Len(sb_statuses) - 1 < sb_max_retries

\* a success is the last response of a call, which has then returned after
\* k + 1 attempts and k sleeps
RetryCounts ==
    /\ \A i \in 1..(Len(sb_statuses) - 1) : ~ResponseOk(sb_statuses[i])
    /\ RetriedThenSucceeded =>
            /\ sb_pc = "returned"
            /\ sb_tries = Len(sb_statuses)
            /\ Len(sb_sleeps) = Len(sb_statuses) - 1
            /\ delivered # <<>> /\ delivered[Len(delivered)] = sb_events

AllTransient == \A i \in 1..Len(sb_statuses) : sb_statuses[i] \in TransientCodes

SendEnded == sb_pc \in {"returned", "raised"}

\* C8: a call never makes more than max(1, max_retries) attempts; against a
\* destination that only answers with retryable statuses it ends, after
\* exactly max(1, max_retries) attempts and one sleep fewer, with a fatal
\* error; and every call ends.
C8_BoundedAttempts ==
    /\ [](/\ sb_tries <= Max(1, sb_max_retries)
          /\ (AllTransient /\ sb_tries = Max(1, sb_max_retries)) => sb_pc = "raised"
          /\ (AllTransient /\ sb_pc = "raised") =>
                /\ sb_tries = Max(1, sb_max_retries)
                /\ Len(sb_sleeps) = Max(1, sb_max_retries) - 1)
    /\ <>SendEnded

\* 503 forever with max_retries = 3: three attempts, two sleeps, fatal
C8_Witness ==
    /\ dest = {503}
    /\ sb_max_retries = 3
    /\ sb_pc = "raised"
    /\ sb_tries = 3
    /\ Len(sb_sleeps) = 2

\* the number of events the destination has acknowledged
DeliveredCount == SumSeq([i \in 1..Len(delivered) |-> Len(delivered[i])])

\* C9: a failure status outside the retryable set is fatal at once: it is the
\* last response of the call, no sleep follows it and the run is aborted;
\* in an aborted run the failed batch is not counted as sent, the batches
\* sent before stay delivered, and nothing more is read or sent.
C9_FatalStatusAborts ==
    /\ [](/\ \A i \in 1..Len(sb_statuses) :
                (~ResponseOk(sb_statuses[i]) /\ sb_statuses[i] \notin TransientCodes) =>
                    /\ i = Len(sb_statuses)
                    /\ Len(sb_sleeps) = i - 1
                    /\ sb_pc = "raised"
                    /\ pc = "aborted"
          /\ pc = "aborted" =>
                /\ total_sent = SumSeq(batches)
                /\ total_sent = DeliveredCount
                /\ Len(batches) = Len(delivered)
                /\ \A i \in 1..Len(delivered) : delivered[i] # sb_events)
    /\ [][pc # "aborted"]_vars

\* a 400 on the first attempt of the second batch, with retries left and
\* events still unread
C9_Witness ==
    /\ pc = "aborted"
    /\ sb_statuses = <<400>>
    /\ sb_max_retries = 2
    /\ Len(delivered) = 1
    /\ total_sent = 1
    /\ total_in < Len(stream)

(***************************************************************************)
(* Properties of apply_id_remap                                            *)
(***************************************************************************)
Count(counters, key) == GetOr(counters, key, 0)

UserCounts(counters) ==
    Count(counters, "id_remap_user_id_missing") + Count(counters, "events_remapped_user_id")
        + Count(counters, "unmapped_user_ids_seen")

DeviceCounts(counters) ==
    Count(counters, "id_remap_device_id_missing")
        + Count(counters, "events_remapped_device_id")
        + Count(counters, "unmapped_device_ids_seen")

\* C10: under the policy "drop", a call that drops the event adds exactly 1
\* to events_dropped_unmapped (and a call that keeps it adds nothing), also
\* when both identifiers are unmapped; every identifier in scope is counted
\* before the drop; with scope "user_id" an unmapped user_id drops the event
\* whatever the device map holds.
C10_DropCountedOnce ==
    (m_ncalls > 0 /\ m_cfg.unmapped_policy = "drop") =>
        LET dropsBefore == Count(m_last.before, "events_dropped_unmapped")
            dropsAfter == Count(m_counters, "events_dropped_unmapped")
            uid == m_last.given.user_id
        IN  /\ dropsAfter = dropsBefore + (IF m_last.dropped THEN 1 ELSE 0)
            /\ (m_cfg.scope \in {"user_id", "both"} /\ m_cfg.user_map # None) =>
                    UserCounts(m_counters) = UserCounts(m_last.before) + 1
            /\ (m_cfg.scope \in {"device_id", "both"} /\ m_cfg.device_map # None) =>
                    DeviceCounts(m_counters) = DeviceCounts(m_last.before) + 1
            /\ (m_cfg.scope = "user_id" /\ m_cfg.user_map # None
                    /\ uid # None /\ ~InMap(uid, m_cfg.user_map)) => m_last.dropped

\* scope "both", user_id and device_id both unmapped: both seen, one drop
C10_Witness ==
    /\ m_ncalls > 0
    /\ m_cfg.unmapped_policy = "drop"
    /\ m_cfg.scope = "both"
    /\ m_last.dropped
    /\ Count(m_counters, "unmapped_user_ids_seen")
            = Count(m_last.before, "unmapped_user_ids_seen") + 1
    /\ Count(m_counters, "unmapped_device_ids_seen")
            = Count(m_last.before, "unmapped_device_ids_seen") + 1
    /\ Count(m_counters, "events_dropped_unmapped")
            = Count(m_last.before, "events_dropped_unmapped") + 1

(***************************************************************************)
(* run_migration with identifier maps                                      *)
(***************************************************************************)
\* lines 38-63: the locals of run_migration before the first event is read
StartOfRun ==
    /\ IdleTransform /\ IdleRemap
    /\ pc = "loop"
    /\ total_in = 0 /\ total_kept = 0 /\ total_sent = 0
    /\ unique_ids = [users |-> {}, devices |-> {}]
    /\ buf = <<>> /\ batches = <<>> /\ sample_events = <<>>
    /\ last_user_props = [by_user |-> EmptyMap, by_device |-> EmptyMap]
    /\ remap_counters = EmptyMap
    /\ mtu = 0
    /\ sb_pc = "idle" /\ sb_tries = 0 /\ sb_max_retries = 0 /\ sb_backoff = <<3, 2>>
    /\ sb_events = <<>> /\ sb_statuses = <<>> /\ sb_sleeps = <<>>
    /\ delivered = <<>>

MaxMappedEvents == 2

\* maps as load_id_map returns them: a table without rows is an empty map
MappedCfgs ==
    {[RunBase EXCEPT !.batch_size = 2, !.max_retries = 2, !.user_table = ut,
                     !.device_table = dt, !.remap_scope = sc, !.unmapped_policy = up] :
        ut \in {PyDict(EmptyMap), PyDict("u1" :> PyStr("n1"))},
        dt \in {None, PyDict("d1" :> PyStr("m1"))},
        sc \in {"user_id", "device_id", "both"},
        up \in {"keep", "drop"}}

MappedEvents ==
    {MkEvt(PyStr("a"), PyInt(1000), Absent, Absent, uid, did, Absent, Absent) :
        uid \in {Absent, PyStr("u1"), PyStr("u2")},
        did \in {Absent, PyStr("d1"), PyStr("u1")}}

MappedStreams == UNION {[1..n -> MappedEvents] : n \in 0..MaxMappedEvents}

InitMapped ==
    /\ StartOfRun
    /\ cfg \in MappedCfgs
    /\ stream \in MappedStreams
    /\ dest = {200, 503}

SpecMapped == InitMapped /\ [][NextRun]_vars

(***************************************************************************)
(* Properties of run_migration with identifier maps                        *)
(***************************************************************************)
\* the events handed to send_batch so far and the events waiting in the
\* buffer, each with its position in the source
Handled ==
    UNION {Elems(delivered[i]) : i \in 1..Len(delivered)} \cup Elems(buf) \cup Elems(sb_events)

SourceUserId(i) == Get(stream[i], "user_id")

\* the positions read so far whose user_id is present and absent from the user map
UnmappedUsers ==
    {i \in 1..total_in : SourceUserId(i) # None /\ ~InMap(SourceUserId(i), cfg.user_table)}

UserScoped == cfg.remap_scope \in {"user_id", "both"}

\* C11: in a run with a user map and no device map, for every scope value,
\* no handled event has a device_id other than its source event's, no device
\* counter is incremented, and every event read is kept unless its user_id
\* is unmapped under the policy "drop".
C11_DeviceIdUntouched ==
    (cfg.user_table # None /\ cfg.device_table = None) =>
        /\ \A e \in Handled : Get(e.evt, "device_id") = Get(stream[e.src], "device_id")
        /\ DeviceCounts(remap_counters) = 0
        /\ total_kept >= Cardinality({i \in 1..total_in :
                            ~(UserScoped /\ cfg.unmapped_policy = "drop" /\ i \in UnmappedUsers)})

\* C12: in a run with a user map (with or without rows), a scope that
\* includes user_id and the policy "drop", no event whose user_id is present
\* and absent from the map is kept, observed, buffered or sent, and each such
\* event is counted as unmapped and as dropped.
C12_UnmappedUserDropped ==
    (cfg.user_table # None /\ UserScoped /\ cfg.unmapped_policy = "drop") =>
        /\ \A e \in Handled : e.src \notin UnmappedUsers
        /\ total_kept <= total_in - Cardinality(UnmappedUsers)
        /\ \A i \in UnmappedUsers : ToText(SourceUserId(i)) \notin unique_ids.users
        /\ Count(remap_counters, "unmapped_user_ids_seen") = Cardinality(UnmappedUsers)
        /\ Count(remap_counters, "events_dropped_unmapped") >= Cardinality(UnmappedUsers)

(***************************************************************************)
(* run_migration as a usage estimator (dry run)                            *)
(***************************************************************************)
MaxObserved == 3

ObservedCfgs ==
    {[RunBase EXCEPT !.dry_run = TRUE, !.mtu_strategy = st, !.exclude_null = ex] :
        st \in {"user_id", "device_id", "union", "Union", "other", ""},
        ex \in BOOLEAN}

ObservedEvents ==
    {MkEvt(PyStr("a"), PyInt(1000), Absent, Absent, uid, did, Absent, Absent) :
        uid \in {Absent, PyStr("null"), PyStr("a"), PyStr("x")},
        did \in {Absent, PyStr("null"), PyStr("x")}}

ObservedStreams == UNION {[1..n -> ObservedEvents] : n \in 0..MaxObserved}

InitObserved ==
    /\ StartOfRun
    /\ cfg \in ObservedCfgs
    /\ stream \in ObservedStreams
    /\ dest = {200}

NextObserved == ReadEvent \/ EndOfStream

SpecObserved == InitObserved /\ [][NextObserved]_vars

(***************************************************************************)
(* Properties of the usage estimate                                        *)
(***************************************************************************)
\* the identifiers carried under key by the events read so far, without the
\* sentinel "null" when exclude_null is on
IdsSeen(key) ==
    {Get(stream[i], key).s : i \in {j \in 1..total_in :
        /\ Get(stream[j], key) # None
        /\ cfg.exclude_null => Get(stream[j], key) # PyStr("null")}}

ExpectedEstimate ==
    CASE cfg.mtu_strategy = "user_id" -> Cardinality(IdsSeen("user_id"))
      [] cfg.mtu_strategy = "device_id" -> Cardinality(IdsSeen("device_id"))
      [] OTHER -> Cardinality(IdsSeen("user_id") \cup IdsSeen("device_id"))

\* C13: after any sequence of observed events the estimate is the number of
\* distinct user ids (strategy user_id), of distinct device ids (device_id)
\* or of distinct identifiers of either kind (union and every other
\* strategy); with exclude_null on, absent ids and "null" are not counted;
\* two events with user_id "a" and one with device_id "x" give 2.
C13_EstimateCountsDistinctIds ==
    /\ _mtu_estimate(unique_ids.users, unique_ids.devices, cfg.mtu_strategy) = ExpectedEstimate
    /\ pc = "done" => mtu = ExpectedEstimate
    /\ (/\ pc = "done" /\ cfg.mtu_strategy = "union" /\ cfg.exclude_null /\ Len(stream) = 3
        /\ \A i \in 1..2 : Get(stream[i], "user_id") = PyStr("a") /\ Get(stream[i], "device_id") = None
        /\ Get(stream[3], "user_id") = None /\ Get(stream[3], "device_id") = PyStr("x"))
            => mtu = 2

\* "x" seen as user_id and as device_id, "a" seen twice, "null" excluded
C13_Witness ==
    /\ pc = "done"
    /\ cfg.mtu_strategy = "union" /\ cfg.exclude_null
    /\ Len(stream) = 3
    /\ Get(stream[1], "user_id") = PyStr("x") /\ Get(stream[1], "device_id") = PyStr("null")
    /\ Get(stream[2], "user_id") = PyStr("a") /\ Get(stream[2], "device_id") = PyStr("x")
    /\ Get(stream[3], "user_id") = PyStr("a") /\ Get(stream[3], "device_id") = None
    /\ mtu = 2

(***************************************************************************)
(* Properties of run_migration                                             *)
(***************************************************************************)
\* the outcome of transform_event for the event at position i (whether it is
\* returned does not depend on the fallback snapshot)
TransformedAt(i) == transform_event(stream[i], TransformArgs(cfg), None)

RemappedAt(i) ==
    apply_id_remap(TransformedAt(i).out, RunUserMap(cfg), RunDeviceMap(cfg),
                   cfg.remap_scope, cfg.unmapped_policy, EmptyMap)

\* the event at position i is dropped neither by transform_event nor by
\* apply_id_remap
Survives(i) ==
    /\ TransformedAt(i).status = "ok"
    /\ (Truthy(RunUserMap(cfg)) \/ Truthy(RunDeviceMap(cfg))) => ~RemappedAt(i).dropped

Survivors == {i \in 1..total_in : Survives(i)}

\* the identifiers under key that the estimator is to see in the events evts
IdsOf(evts, key) ==
    {ToText(Get(evts[i], key)) : i \in {j \in 1..Len(evts) :
        /\ Truthy(Get(evts[j], key))
        /\ cfg.exclude_null => Get(evts[j], key) # PyStr("null")}}

\* C14: an event dropped by transform_event or by apply_id_remap is never
\* counted as kept, sampled, observed, buffered or sent, and no event is
\* delivered twice; the estimator holds exactly the identifiers of the
\* surviving events as the remapper rewrote them; and at every moment
\* events_sent <= events_kept <= events_read.
C14_DropIsTerminal ==
    /\ total_sent <= total_kept /\ total_kept <= total_in
    /\ total_kept = Cardinality(Survivors)
    /\ Len(sample_events) = total_kept
    /\ \A e \in Handled : e.src \in Survivors
    /\ DeliveredCount
            = Cardinality({e.src : e \in UNION {Elems(delivered[i]) : i \in 1..Len(delivered)}})
    /\ unique_ids.users = IdsOf(sample_events, "user_id")
    /\ unique_ids.devices = IdsOf(sample_events, "device_id")
    /\ \A i \in 1..total_in :
            (Survives(i) /\ Truthy(RunUserMap(cfg)) /\ InMap(Get(stream[i], "user_id"), RunUserMap(cfg)))
                => RunUserMap(cfg).d[Get(stream[i], "user_id").s].s \in unique_ids.users

\* one event dropped by the deny list, one dropped as unmapped, one kept,
\* rewritten and sent
C14_Witness ==
    /\ total_in = 3 /\ total_kept = 1 /\ total_sent = 1
    /\ cfg.unmapped_policy = "drop" /\ Truthy(RunUserMap(cfg))
    /\ \E i \in 1..3 : TransformedAt(i).status = "dropped"
    /\ \E i \in 1..3 : TransformedAt(i).status = "ok" /\ RemappedAt(i).dropped
    /\ unique_ids.users = {"n1"}

\* the positions in the source of the events of one batch
Sources(batch) == [j \in 1..Len(batch) |-> batch[j].src]

Increasing(q) == \A i, j \in 1..Len(q) : i < j => q[i] < q[j]

\* C15: in a non-dry run with batch size B, while the run is in progress
\* events_kept = events_sent + the buffer length and, between two events,
\* the buffer holds fewer than B events; no empty batch is ever sent; when
\* the run ends without a fatal error, every kept event is in exactly one
\* delivered batch, the batches hold the events in source order, every batch
\* but the last holds B events and the last holds 1..B, and events_sent =
\* events_kept = the sum of the recorded batch sizes.
C15_BatchesPartitionKeptEvents ==
    ~cfg.dry_run =>
        /\ pc \in {"loop", "send", "flush"} => total_kept = total_sent + Len(buf)
        /\ pc = "loop" => Len(buf) < cfg.batch_size
        /\ \A i \in 1..Len(delivered) : delivered[i] # <<>>
        /\ sb_pc # "idle" => sb_events # <<>>
        /\ pc = "done" =>
            /\ total_sent = total_kept
            /\ total_kept = SumSeq(batches)
            /\ Len(delivered) = Len(batches)
            /\ \A i \in 1..Len(batches) :
                /\ Len(delivered[i]) = batches[i]
                /\ batches[i] >= 1 /\ batches[i] <= cfg.batch_size
                /\ i < Len(batches) => batches[i] = cfg.batch_size
                /\ Increasing(Sources(delivered[i]))
                /\ \A k \in 1..Len(batches) : \A a \in Elems(delivered[i]), b \in Elems(delivered[k]) :
                        i < k => a.src < b.src
            /\ UNION {Elems(Sources(delivered[i])) : i \in 1..Len(delivered)} = Survivors

\* three kept events, batch size 2: a full batch, then the remainder
C15_Witness ==
    /\ ~cfg.dry_run /\ cfg.batch_size = 2
    /\ pc = "done"
    /\ batches = <<2, 1>>
    /\ total_kept = 3 /\ total_sent = 3

\* C16: in dry-run mode the buffer stays empty, send_batch is never called,
\* nothing is delivered, events_sent stays 0 and the batch list stays empty,
\* while every surviving event is counted as kept, sampled and observed.
C16_DryRunNeverSends ==
    cfg.dry_run =>
        /\ buf = <<>>
        /\ sb_pc = "idle" /\ sb_tries = 0 /\ sb_statuses = <<>> /\ sb_events = <<>>
        /\ delivered = <<>>
        /\ total_sent = 0 /\ batches = <<>>
        /\ pc \in {"loop", "done", "crashed"}
        /\ total_kept = Cardinality(Survivors)
        /\ Len(sample_events) = Cardinality(Survivors)
        /\ \A i \in Survivors : Truthy(Get(stream[i], "device_id")) =>
                ToText(Get(stream[i], "device_id")) \in unique_ids.devices

\* a dry run that read three events to the end and kept them all
C16_Witness ==
    /\ cfg.dry_run
    /\ pc = "done"
    /\ total_in = 3 /\ total_kept = 3 /\ Len(sample_events) = 3
    /\ unique_ids.users # {}
    /\ total_sent = 0

(***************************************************************************)
(* run_migration over events with and without user_properties              *)
(***************************************************************************)
MaxSnapshotEvents == 3

SnapshotCfgs == {[RunBase EXCEPT !.max_retries = 2]}

PropsX == PyDict("x" :> PyInt(1))

PropsY == PyDict("y" :> PyInt(2))

SnapshotEvents ==
    {MkEvt(PyStr("a"), PyInt(1000), Absent, Absent, PyStr("u1"), PyStr("d1"), Absent, PropsX),
     MkEvt(PyStr("a"), PyInt(1000), Absent, Absent, PyStr("u1"), Absent, Absent, PropsY),
     MkEvt(PyStr("a"), Absent, Absent, Absent, PyStr("u2"), PyStr("d1"), Absent, PropsY),
     MkEvt(PyStr("a"), PyInt(1000), Absent, Absent, Absent, PyStr("d1"), Absent, PropsX),
     MkEvt(PyStr("a"), PyInt(1000), Absent, Absent, PyStr("u1"), Absent, Absent, Absent),
     MkEvt(PyStr("a"), PyInt(1000), Absent, Absent, PyStr("u1"), PyStr("d1"), Absent, Absent),
     MkEvt(PyStr("a"), PyInt(1000), Absent, Absent, PyStr("u2"), PyStr("d1"), Absent, Absent),
     MkEvt(PyStr("a"), PyInt(1000), Absent, Absent, PyStr("u2"), Absent, Absent, Absent),
     MkEvt(PyStr("a"), PyInt(1000), Absent, Absent, Absent, PyStr("d1"), Absent,
           PyDict(EmptyMap))}

SnapshotStreams == UNION {[1..n -> SnapshotEvents] : n \in 0..MaxSnapshotEvents}

InitSnapshot ==
    /\ StartOfRun
    /\ cfg \in SnapshotCfgs
    /\ stream \in SnapshotStreams
    /\ dest = {200, 503}

SpecSnapshot == InitSnapshot /\ [][NextRun]_vars

(***************************************************************************)
(* Properties of the user_properties fallback                              *)
(***************************************************************************)
\* the event at position i carries non-empty user_properties of its own
HasOwnProps(i) ==
    IsDict(Get(stream[i], "user_properties")) /\ Get(stream[i], "user_properties").d # EmptyMap

\* the earlier positions whose event has user_properties of its own and the
\* same identifier under key as the event at position i
EarlierWith(i, key) ==
    {j \in 1..(i - 1) : /\ HasOwnProps(j)
                        /\ Get(stream[i], key) # None
                        /\ Get(stream[j], key) = Get(stream[i], key)}

Latest(S) == CHOOSE j \in S : \A k \in S : k <= j

\* the snapshot the event at position i is to be given (None for none)
ExpectedFallback(i) ==
    IF HasOwnProps(i) THEN None
    ELSE IF EarlierWith(i, "user_id") # {}
         THEN Get(stream[Latest(EarlierWith(i, "user_id"))], "user_properties")
    ELSE IF EarlierWith(i, "device_id") # {}
         THEN Get(stream[Latest(EarlierWith(i, "device_id"))], "user_properties")
    ELSE None

\* C17: an event without non-empty user_properties of its own is given the
\* user_properties of the latest earlier event (kept or dropped) that had
\* some and the same user_id; failing that, of the latest earlier event with
\* the same device_id; failing that, none. An event with its own keeps its
\* own. The caches already hold an event's own snapshot when it is transformed.
C17_FallbackIsLatestSnapshot ==
    /\ (pc = "loop" /\ total_in < Len(stream)) =>
            FallbackFor(UpdateCaches(last_user_props, stream[total_in + 1]), stream[total_in + 1])
                = ExpectedFallback(total_in + 1)
    /\ \A e \in Handled :
            Get(e.evt, "user_properties")
                = IF HasOwnProps(e.src) \/ ExpectedFallback(e.src) = None
                  THEN Get(stream[e.src], "user_properties")
                  ELSE ExpectedFallback(e.src)
    /\ \A i \in 1..total_in :
            /\ (HasOwnProps(i) /\ Get(stream[i], "user_id") # None) =>
                    Get(stream[i], "user_id").s \in DOMAIN last_user_props.by_user
            /\ (HasOwnProps(i) /\ Get(stream[i], "device_id") # None) =>
                    Get(stream[i], "device_id").s \in DOMAIN last_user_props.by_device

\* the third event has none of its own; the latest snapshot of its device
\* comes from the dropped second event, yet it is given the older snapshot
\* of its user
C17_Witness ==
    /\ total_in = 3 /\ Len(buf) = 2
    /\ ~HasOwnProps(3)
    /\ Get(stream[1], "user_properties") = PropsX /\ Get(stream[1], "user_id") = PyStr("u1")
    /\ Get(stream[2], "user_properties") = PropsY /\ Get(stream[2], "user_id") = PyStr("u2")
    /\ Get(stream[2], "time") = None
    /\ Get(stream[3], "user_id") = PyStr("u1") /\ Get(stream[3], "device_id") = PyStr("d1")
    /\ Get(stream[2], "device_id") = PyStr("d1")
    /\ buf[2].src = 3 /\ Get(buf[2].evt, "user_properties") = PropsX

(***************************************************************************)
(* A caller of transform_event with conditional rename rules                *)
(***************************************************************************)
\* a rule with the condition object when (of any type) and the target to
RuleOf(when, to) == PyDict(("when" :> when) @@ ("rename_to" :> PyStr(to)))

TypeIs(et) == PyDict("event_type" :> PyStr(et))

\* condition objects: conjunctions, operator objects, unknown operators,
\* comparisons that raise, and objects that are not mappings
Whens ==
    {TypeIs("a"),
     TypeIs("b"),
     PyDict(("event_type" :> PyStr("a")) @@ ("event_properties.x" :> PyStr("42"))),
     PyDict("event_properties.x" :>
                PyDict(("exists" :> PyBool(TRUE)) @@ ("contains" :> PyStr("ERR")))),
     PyDict(("event_type" :> PyStr("a"))
                @@ ("event_properties.x" :> PyDict("bogus" :> PyInt(1)))),
     PyDict("event_properties.x" :> PyDict("in" :> PyInt(5))),
     PyDict("event_properties.x" :> PyDict("in" :> PyList(<<PyStr("42"), PyInt(5)>>))),
     PyDict("event_properties.x" :> PyDict("range" :> PyList(<<PyInt(0), PyInt(100)>>))),
     PyDict("event_properties.x" :>
                PyDict(("not" :> PyStr("Error 5")) @@ ("bogus" :> PyInt(1)))),
     PyStr("a"),
     PyList(<<PyStr("a")>>),
     PyDict(EmptyMap)}

RuleLists ==
    {<<RuleOf(w, "z")>> : w \in Whens}
        \cup {<<RuleOf(w, "c"), RuleOf(TypeIs("a"), "d")>> : w \in Whens}
        \cup {<<RuleOf(TypeIs("b"), "d"), RuleOf(TypeIs("a"), "c")>>,
              <<PyDict("rename_to" :> PyStr("c"))>>,
              <<PyDict("rename_to" :> PyStr("c")), RuleOf(TypeIs("a"), "d")>>,
              <<PyDict("when" :> TypeIs("a")), RuleOf(TypeIs("a"), "d")>>,
              <<PyStr("oops"), RuleOf(TypeIs("a"), "d")>>,
              <<PyDict(("when" :> TypeIs("a")) @@ ("rename_to" :> PyStr(""))),
                RuleOf(TypeIs("a"), "d")>>}

RenameCfgs ==
    {[BaseCfg EXCEPT !.rename_map = rm, !.rename_rules = rr] :
        rm \in {EmptyMap, "a" :> PyStr("b")},
        rr \in RuleLists}

RenameEvents ==
    {MkEvt(et, PyInt(1000), Absent, Absent, PyStr("u1"), Absent, ep, Absent) :
        et \in {PyStr("a"), PyStr("b")},
        ep \in {Absent, PyDict("x" :> PyStr("42")), PyDict("x" :> PyStr("Error 5"))}}

InitRename ==
    /\ IdleRemap /\ IdleSend /\ IdleRun
    /\ t_results = <<>>
    /\ t_evt \in RenameEvents
    /\ t_cfg \in RenameCfgs
    /\ t_fb = None

SpecRename == InitRename /\ [][NextTransform]_vars

(***************************************************************************)
(* Properties of the conditional rename                                    *)
(***************************************************************************)
\* a rule that is a mapping with a condition and a non-empty target
WellFormed(rule) ==
    IsDict(rule) /\ "when" \in DOMAIN rule.d /\ "rename_to" \in DOMAIN rule.d
        /\ Truthy(rule.d["rename_to"])

\* the positions of the rules whose condition holds for the raw event evt
Matching(evt, rules) ==
    {i \in 1..Len(rules) : WellFormed(rules[i]) /\ _match_conditions(evt, rules[i].d["when"])}

First(S) == CHOOSE i \in S : \A k \in S : i <= k

\* C18: the type of the returned event is the target of the first rule, in
\* list order, whose condition holds for the original raw event; when no
\* rule matches it is the original type after the unconditional rename map.
C18_FirstMatchingRuleWins ==
    \A i \in Calls :
        (t_results[i].status = "ok" /\ \A k \in 1..Len(t_cfg.rename_rules) :
                                            WellFormed(t_cfg.rename_rules[k])) =>
            LET given == t_results[i].given
                hits == Matching(given, t_cfg.rename_rules)
            IN  t_results[i].out.event_type
                    = IF hits = {}
                      THEN rename_event_type(OriginalType(i), t_cfg.rename_map)
                      ELSE t_cfg.rename_rules[First(hits)].d["rename_to"]

\* the map renames a to b; the first rule asks for type b, the second for
\* type a: an event of type a gets the target of the second rule
C18_Witness ==
    /\ Len(t_results) > 0
    /\ t_results[1].status = "ok"
    /\ OriginalType(1) = PyStr("a")
    /\ t_cfg.rename_map = ("a" :> PyStr("b"))
    /\ t_cfg.rename_rules = <<RuleOf(TypeIs("b"), "d"), RuleOf(TypeIs("a"), "c")>>
    /\ t_results[1].out.event_type = PyStr("c")

KnownOps == {"not", "in", "not_in", "exists", "empty", "range", "contains", "not_contains"}

\* the value a condition path names in the event
ValueAt(evt, path) ==
    IF path \in DOMAIN PathTable THEN _get_by_path(evt, PyStr(path)) ELSE Get(evt, path)

\* the comparisons that raise in Python: a membership test against an object
\* that cannot be iterated or of a value that cannot be hashed, a range
\* whose bounds are not a pair or whose value is not numeric text
Raises(val, op, cmp) ==
    \/ /\ op \in {"in", "not_in"} /\ cmp # None
       /\ cmp.k \in {"int", "float", "bool"} \/ val.k \in {"dict", "list"}
    \/ /\ op = "range"
       /\ \/ cmp.k # "list"
          \/ DOMAIN cmp.d # 1..2
          \/ val # None /\ ~ToNumber(val)[1]

\* the condition objects of the configured rules
WhensInUse ==
    {t_cfg.rename_rules[k].d["when"] : k \in {n \in 1..Len(t_cfg.rename_rules) :
        IsDict(t_cfg.rename_rules[n]) /\ "when" \in DOMAIN t_cfg.rename_rules[n].d}}

\* C19: a condition matches only if it is a mapping, every one of its keys is
\* satisfied and, within an operator object, every operator is; a condition
\* with an unknown operator or with a comparison that raises never matches,
\* whatever its other keys say; a rule whose condition does not match leaves
\* the event type alone.
C19_ConditionsFailClosed ==
    /\ \A when \in WhensInUse :
        /\ ~IsDict(when) => ~_match_conditions(t_evt, when)
        /\ IsDict(when) =>
            /\ _match_conditions(t_evt, when)
                    = \A path \in DOMAIN when.d :
                            _match_conditions(t_evt, PyDict(path :> when.d[path]))
            /\ \A path \in DOMAIN when.d : IsDict(when.d[path]) =>
                /\ _match_conditions(t_evt, PyDict(path :> when.d[path]))
                        = \A op \in DOMAIN when.d[path].d :
                            _match_conditions(t_evt,
                                PyDict(path :> PyDict(op :> when.d[path].d[op])))
                /\ \A op \in DOMAIN when.d[path].d :
                        (op \notin KnownOps \/ Raises(ValueAt(t_evt, path), op, when.d[path].d[op]))
                            => ~_match_conditions(t_evt, when)
    /\ \A i \in Calls :
            (/\ t_results[i].status = "ok"
             /\ Len(t_cfg.rename_rules) = 1
             /\ WellFormed(t_cfg.rename_rules[1])
             /\ ~_match_conditions(t_results[i].given, t_cfg.rename_rules[1].d["when"]))
                => t_results[i].out.event_type
                        = rename_event_type(OriginalType(i), t_cfg.rename_map)

\* the key event_type is satisfied, the other key uses an unknown operator:
\* the rule does not rename the event
C19_Witness ==
    /\ Len(t_results) > 0
    /\ t_results[1].status = "ok"
    /\ OriginalType(1) = PyStr("a")
    /\ t_cfg.rename_map = EmptyMap
    /\ t_cfg.rename_rules =
            <<RuleOf(PyDict(("event_type" :> PyStr("a"))
                        @@ ("event_properties.x" :> PyDict("bogus" :> PyInt(1)))), "z")>>
    /\ Get(t_evt, "event_properties") = PyDict("x" :> PyStr("42"))
    /\ t_results[1].out.event_type = PyStr("a")

\* C20: a rule that is not a mapping, or lacks its condition or its target,
\* changes the type of no event and aborts no call: every call returns what
\* it returns when the malformed rules are taken out of the list.
C20_MalformedRuleSkipped ==
    \A i \in Calls :
        /\ t_results[i].status # "raised"
        /\ t_results[i].status = "ok" =>
                t_results[i].out.event_type
                    = FinalEventType(t_results[i].given,
                                     [t_cfg EXCEPT !.rename_rules = SelectSeq(@, WellFormed)])

(***************************************************************************)
(* A caller of transform_event with keep lists and property renames        *)
(***************************************************************************)
ProjectEvents ==
    {MkEvt(et, PyInt(1000), Absent, Absent, PyStr("u1"), Absent, ep, Absent) :
        et \in {PyStr("a"), PyStr("b")},
        ep \in {Absent, PyDict("x" :> PyStr("42")), PyDict("y" :> PyInt(5)),
                PyDict(("x" :> PyStr("42")) @@ ("y" :> PyInt(5)))}}

ProjectCfgs ==
    {[BaseCfg EXCEPT !.keep_map = km, !.prop_rename_map = pr, !.rename_map = rm] :
        km \in {EmptyMap, "*" :> <<"*">>, "a" :> <<"x">>, "a" :> <<"x", "z">>,
                "*" :> <<"y">>},
        pr \in {EmptyMap, "a" :> ("x" :> "z"), "b" :> ("x" :> "z"),
                "a" :> (("x" :> "z") @@ ("y" :> "w"))},
        rm \in {EmptyMap, "b" :> PyStr("a")}}

InitProject ==
    /\ IdleRemap /\ IdleSend /\ IdleRun
    /\ t_results = <<>>
    /\ t_evt \in ProjectEvents
    /\ t_cfg \in ProjectCfgs
    /\ t_fb = None

SpecProject == InitProject /\ [][NextTransform]_vars

(***************************************************************************)
(* Properties of the property projection                                   *)
(***************************************************************************)
\* the raw event_properties of the event given to call i
RawProps(i) == PyOr(Get(t_results[i].given, "event_properties"), PyDict(EmptyMap)).d

\* the type under which call i looks up the keep list and the renames
FinalType(i) == FinalEventType(t_results[i].given, t_cfg)

\* the keep list that applies to the type et: its own entry, else the
\* wildcard entry, else keep all
KeepListFor(et) == MapGet(t_cfg.keep_map, et, GetOr(t_cfg.keep_map, "*", <<"*">>))

\* the raw properties of call i that the keep list lets through
Surviving(i) ==
    IF KeepListFor(FinalType(i)) = <<"*">> THEN DOMAIN RawProps(i)
    ELSE DOMAIN RawProps(i) \cap Elems(KeepListFor(FinalType(i)))

\* C21: for every raw property that survives the keep-map projection for the
\* final event type and has a rename entry old -> new for that type, the
\* returned event_properties holds new with the property's original value
\* and does not hold old, under the wildcard keep list and under an explicit
\* keep list that names old.
C21_RenamedPropertyReachesOutput ==
    \A i \in Calls :
        t_results[i].status = "ok" =>
            LET rmap == MapGet(t_cfg.prop_rename_map, FinalType(i), EmptyMap)
                ep == t_results[i].out.event_properties.d
            IN  \A old \in Surviving(i) \cap DOMAIN rmap :
                    /\ rmap[old] \in DOMAIN ep
                    /\ ep[rmap[old]] = RawProps(i)[old]
                    /\ old \notin DOMAIN ep

(***************************************************************************)
(* A caller of transform_event with keep lists, deny lists and augmentation *)
(***************************************************************************)
RetainEvents ==
    {MkEvt(et, PyInt(1000), Absent, Absent, PyStr("u1"), Absent, ep, up) :
        et \in {PyStr("a"), PyStr("b")},
        ep \in {Absent, PyDict(("x" :> PyStr("42")) @@ ("y" :> PyInt(5)))},
        up \in {Absent, PyDict(("x" :> PyInt(1)) @@ ("y" :> PyInt(2)))}}

RetainCfgs ==
    {[BaseCfg EXCEPT !.keep_map = km, !.const_props = cp, !.derived_props = dp,
                     !.prop_deny_map = dm] :
        km \in {EmptyMap, "*" :> <<"*">>, "*" :> <<>>, "a" :> <<"x">>,
                ("a" :> <<>>) @@ ("*" :> <<"y">>), "*" :> <<"y", "k">>},
        cp \in {EmptyMap, "*" :> PyDict("k" :> PyStr("c"))},
        dp \in {EmptyMap, "*" :> PyDict("j" :> DerivedFrom("event_properties.x"))},
        dm \in {EmptyMap, "*" :> <<"x">>, ("a" :> <<"y">>) @@ ("*" :> <<"k">>)}}

RetainFallbacks == {None, PyDict("y" :> PyInt(2))}

InitRetain ==
    /\ IdleRemap /\ IdleSend /\ IdleRun
    /\ t_results = <<>>
    /\ t_evt \in RetainEvents
    /\ t_cfg \in RetainCfgs
    /\ t_fb \in RetainFallbacks

SpecRetain == InitRetain /\ [][NextTransform]_vars

(***************************************************************************)
(* Properties of the second projection pass                                *)
(***************************************************************************)
\* the keys of the returned user_properties of call i (none when the event
\* carries no such mapping)
UserPropKeys(i) ==
    IF IsDict(Get(t_results[i].out, "user_properties"))
    THEN DOMAIN t_results[i].out["user_properties"].d ELSE {}

EventPropKeys(i) == DOMAIN t_results[i].out.event_properties.d

\* C22: whenever the keep list that applies to the final event type (its own
\* entry, else the wildcard entry) is not the wildcard singleton, an empty
\* list included, every key of the returned event_properties and
\* user_properties is in that keep list, keys added by constants and derived
\* rules too; and no key that the deny map names for the type or for the
\* wildcard appears in either mapping.
C22_RetentionOnFinalEvent ==
    \A i \in Calls :
        t_results[i].status = "ok" =>
            /\ KeepListFor(FinalType(i)) # <<"*">> =>
                    /\ EventPropKeys(i) \subseteq Elems(KeepListFor(FinalType(i)))
                    /\ UserPropKeys(i) \subseteq Elems(KeepListFor(FinalType(i)))
            /\ EventPropKeys(i) \cap DenyKeys(FinalType(i), t_cfg.prop_deny_map) = {}
            /\ UserPropKeys(i) \cap DenyKeys(FinalType(i), t_cfg.prop_deny_map) = {}

(***************************************************************************)
(* A caller of transform_event with scoped constants and derived rules     *)
(***************************************************************************)
\* a constants or derived-rules document that defines key in the legacy flat
\* scope, the "*" scope and the scopes of the types a and b (Absent: not
\* defined in that scope)
Scoped(key, legacy, global, forA, forB) ==
    Opt(key, legacy)
        @@ Opt("*", IF global = Absent THEN Absent ELSE PyDict(key :> global))
        @@ Opt("a", IF forA = Absent THEN Absent ELSE PyDict(key :> forA))
        @@ Opt("b", IF forB = Absent THEN Absent ELSE PyDict(key :> forB))

ScopedConsts ==
    {Scoped("z", l, g, a, b) : l \in {Absent, PyStr("L")}, g \in {Absent, PyStr("G")},
                               a \in {Absent, PyStr("A")}, b \in {Absent, PyStr("B")}}

ScopedRules ==
    {Scoped("w", l, g, a, b) :
        l \in {Absent, PyDict("default" :> PyStr("L"))},
        g \in {Absent, PyDict(("from" :> PyStr("event_properties.x"))
                              @@ ("default" :> PyStr("G")))},
        a \in {Absent, PyDict(("from" :> PyStr("event_properties.y"))
                              @@ ("default" :> PyStr("A")))},
        b \in {Absent, PyDict("default" :> PyStr("B"))}}

ScopeCfgs ==
    {[BaseCfg EXCEPT !.const_props = cp, !.derived_props = dp] :
        cp \in ScopedConsts, dp \in ScopedRules}

ScopeEvents ==
    {MkEvt(et, PyInt(1000), Absent, Absent, PyStr("u1"), Absent, ep, Absent) :
        et \in {PyStr("a"), PyStr("b"), PyStr("c")},
        ep \in {Absent,
                PyDict(("x" :> PyStr("42")) @@ ("y" :> PyInt(5)) @@ ("z" :> PyStr("raw"))
                        @@ ("w" :> PyStr("raw")))}}

InitScopes ==
    /\ IdleRemap /\ IdleSend /\ IdleRun
    /\ t_results = <<>>
    /\ t_evt \in ScopeEvents
    /\ t_cfg \in ScopeCfgs
    /\ t_fb = None

SpecScopes == InitScopes /\ [][NextTransform]_vars

(***************************************************************************)
(* Properties of the augmentation                                          *)
(***************************************************************************)
\* what the document doc defines for key in the scope of the type et, else in
\* the "*" scope, else in the legacy flat scope (Absent: defined in none);
\* rules tells that doc holds derived rules, whose legacy entries are mappings
Winner(doc, et, key, rules) ==
    IF MapHas(doc, et) /\ IsDict(doc[et.s]) /\ key \in DOMAIN doc[et.s].d
    THEN doc[et.s].d[key]
    ELSE IF "*" \in DOMAIN doc /\ IsDict(doc["*"]) /\ key \in DOMAIN doc["*"].d
         THEN doc["*"].d[key]
    ELSE IF key \in DOMAIN doc /\ key # "*" /\ PyStr(key) # et /\ IsDict(doc[key]) = rules
         THEN doc[key]
    ELSE Absent

\* the value of key in the raw event_properties (Absent: not carried)
RawProp(i, key) == IF key \in DOMAIN RawProps(i) THEN RawProps(i)[key] ELSE Absent

\* the value of key in the returned event_properties (Absent: not carried)
OutProp(i, key) ==
    IF key \in EventPropKeys(i) THEN t_results[i].out.event_properties.d[key] ELSE Absent

\* C23: when a constant key or a derived key is defined in the legacy flat
\* scope, the "*" scope and the scope of the final event type, the
\* definition of the event-type scope is the one applied, the "*" one wins
\* over the legacy one, a definition scoped to another event type is never
\* applied, and a constant overwrites a raw property of the same key.
C23_ScopePrecedence ==
    \A i \in Calls :
        t_results[i].status = "ok" =>
            LET const == Winner(t_cfg.const_props, FinalType(i), "z", FALSE)
                rule == Winner(t_cfg.derived_props, FinalType(i), "w", TRUE)
            IN  /\ OutProp(i, "z") = IF const = Absent THEN RawProp(i, "z") ELSE const
                /\ OutProp(i, "w") = IF rule = Absent THEN RawProp(i, "w")
                                     ELSE DerivedValue(t_results[i].given, rule.d)
                /\ rule # Absent =>
                        OutProp(i, "w") \in
                            {IF Get(rule.d, "from") = PyStr("event_properties.x")
                             THEN RawProp(i, "x")
                             ELSE IF Get(rule.d, "from") = PyStr("event_properties.y")
                                  THEN RawProp(i, "y") ELSE Absent,
                             rule.d["default"]}

\* the key is defined in all four scopes and carried by the raw event of
\* type a: the constant and the rule of the scope a are applied
C23_Witness ==
    /\ Len(t_results) > 0
    /\ t_results[1].status = "ok"
    /\ OriginalType(1) = PyStr("a")
    /\ t_cfg.const_props = Scoped("z", PyStr("L"), PyStr("G"), PyStr("A"), PyStr("B"))
    /\ DOMAIN t_cfg.derived_props = {"w", "*", "a", "b"}
    /\ RawProp(1, "z") = PyStr("raw")
    /\ OutProp(1, "z") = PyStr("A")
    /\ OutProp(1, "w") = PyInt(5)

(***************************************************************************)
(* A caller of transform_event with one derived rule                       *)
(***************************************************************************)
\* a rule that reads event_properties.x (Absent: the rule lacks that entry)
RuleFor(map, coerce, expr, default) ==
    PyDict(("from" :> PyStr("event_properties.x")) @@ Opt("map", map)
            @@ Opt("coerce", coerce) @@ Opt("expr", expr) @@ Opt("default", default))

DerivedRules ==
    {RuleFor(m, c, e, d) :
        m \in {Absent, PyDict("42" :> PyStr("m")), PyDict("42" :> None)},
        c \in {Absent, PyStr("int"), PyStr("float"), PyStr("bool"), PyStr("str")},
        e \in {Absent, PyStr("value + 1"), PyStr("value +"), PyStr("None")},
        d \in {Absent, PyInt(0)}}

DerivedCfgs ==
    {[BaseCfg EXCEPT !.derived_props = "*" :> PyDict("z" :> r)] : r \in DerivedRules}

DerivedEvents ==
    {MkEvt(PyStr("a"), PyInt(1000), Absent, Absent, PyStr("u1"), Absent,
           PyDict(Opt("x", x) @@ ("y" :> PyInt(5))), Absent) :
        x \in {Absent, PyStr("42"), PyStr("abc"), PyInt(42), PyStr(" ")}}

InitDerived ==
    /\ IdleRemap /\ IdleSend /\ IdleRun
    /\ t_results = <<>>
    /\ t_evt \in DerivedEvents
    /\ t_cfg \in DerivedCfgs
    /\ t_fb = None

SpecDerived == InitDerived /\ [][NextTransform]_vars

(***************************************************************************)
(* Properties of one derived rule                                          *)
(***************************************************************************)
\* the configured rule for the key z
TheRule == t_cfg.derived_props["*"].d["z"].d

\* the value the rule's source path names in the raw event of call i
Resolved(i) == ValueAt(t_results[i].given, "event_properties.x")

\* the resolved value of call i is a key of the rule's mapping table
IsMapped(i) ==
    /\ "map" \in DOMAIN TheRule
    /\ Resolved(i).k = "str"
    /\ Resolved(i).s \in DOMAIN TheRule["map"].d

OrDefault(v) == IF v = None /\ "default" \in DOMAIN TheRule THEN TheRule["default"] ELSE v

\* the declared coercion of the resolved value, the rule's default (else
\* null) standing in for a coercion that fails
Coerced(i) ==
    IF Coerce(Resolved(i), TheRule["coerce"])[1] THEN Get(TheRule, "default")
    ELSE Coerce(Resolved(i), TheRule["coerce"])[2]

\* C24: the source is resolved on the original raw event; if the rule has a
\* mapping table and the resolved value is one of its keys, the final value
\* is the mapped value and neither coercion nor expression is applied;
\* otherwise the coercion is applied if declared, and the expression is
\* applied only when no coercion was applied; the default replaces a result
\* that is still null.
C24_DerivedEvaluationOrder ==
    \A i \in Calls :
        t_results[i].status = "ok" =>
            OutProp(i, "z") =
                OrDefault(IF IsMapped(i) THEN TheRule["map"].d[Resolved(i).s]
                          ELSE IF "coerce" \in DOMAIN TheRule THEN Coerced(i)
                          ELSE IF "expr" \in DOMAIN TheRule /\ Resolved(i) # None
                               THEN _apply_expr(TheRule["expr"], Resolved(i))
                          ELSE Resolved(i))

\* eval(expr) of the expressions in use raises: the text is not an
\* expression, or it adds a number to a text
ExprRaises(expr, value) ==
    \/ expr = PyStr("value +")
    \/ expr = PyStr("value + 1") /\ ~IsNum(value)

\* the coercion declared by the rule fails on the resolved value of call i
CoercionFails(i) ==
    ~IsMapped(i) /\ "coerce" \in DOMAIN TheRule /\ Coerce(Resolved(i), TheRule["coerce"])[1]

\* the expression declared by the rule is evaluated in call i, on the resolved
\* value as the coercion left it, and fails
ExpressionFails(i) ==
    /\ ~IsMapped(i) /\ "expr" \in DOMAIN TheRule
    /\ IF "coerce" \in DOMAIN TheRule
       THEN Coerced(i) # None /\ ExprRaises(TheRule["expr"], Coerced(i))
       ELSE Resolved(i) # None /\ ExprRaises(TheRule["expr"], Resolved(i))

\* C25: when the coercion fails or the evaluation of the expression fails,
\* the final value of the derived key is the rule's declared default if it
\* has one and null otherwise ("abc" coerced to int with default 0 gives 0);
\* the coercion of "42" to int gives 42; and in every case the event is
\* returned with its other properties as they were.
C25_DerivedFailureAbsorbed ==
    \A i \in Calls :
        /\ t_results[i].status = "ok"
        /\ OutProp(i, "x") = RawProp(i, "x")
        /\ OutProp(i, "y") = RawProp(i, "y")
        /\ (CoercionFails(i) \/ ExpressionFails(i)) => OutProp(i, "z") = Get(TheRule, "default")
        /\ (/\ Resolved(i) = PyStr("42") /\ ~IsMapped(i)
            /\ Get(TheRule, "coerce") = PyStr("int") /\ "expr" \notin DOMAIN TheRule)
                => OutProp(i, "z") = PyInt(42)

\* C26: for every derived rule that applies to the final event type and every
\* returned event, event_properties contains the derived key, also when its
\* final value is null (source path missing, no default), for every keep-map
\* configuration.
C26_DerivedKeyAlwaysWritten ==
    \A i \in Calls :
        t_results[i].status = "ok" =>
            DOMAIN DerivedToApply(FinalType(i), t_cfg.derived_props) \subseteq EventPropKeys(i)

(***************************************************************************)
(* Frame properties of transform_event                                     *)
(***************************************************************************)
\* C27: a call of transform_event leaves its inputs' source data unchanged:
\* after any call the raw event, its event_properties and user_properties
\* mappings included, and the fallback user_properties snapshot hold exactly
\* the keys and values they held before the call, also when a property deny
\* map or a non-wildcard keep list strips keys from the returned event.
C27_InputsUnchanged ==
    \A i \in Calls :
        /\ t_results[i].given = t_evt
        /\ t_results[i].given_fb = t_fb

(***************************************************************************)
(* Drop reasons of transform_event                                         *)
(***************************************************************************)
\* the raw event of call i passes the deny/allow filter
PassesFilter(i) ==
    /\ ~InList(OriginalType(i), t_cfg.deny)
    /\ Len(t_cfg.allow) = 0 \/ InList(OriginalType(i), t_cfg.allow)

\* the raw event of call i carries a timestamp, and its timestamps lie inside
\* the time window when one is given
TimestampInWindow(i) ==
    /\ SourceTimes(t_results[i].given) # {}
    /\ Len(t_cfg.time_window_ms) = 2 =>
            \A t \in SourceTimes(t_results[i].given) :
                t >= t_cfg.time_window_ms[1] /\ t < t_cfg.time_window_ms[2]

\* the raw event of call i is of the session-duration type and neither the
\* rename map nor a rename rule changed its type
UnrenamedSessionDuration(i) ==
    /\ OriginalType(i) = PyStr(SessionDurationType)
    /\ FinalType(i) = OriginalType(i)

\* C28: an event that passes the deny/allow filter and carries a timestamp
\* inside the time window (when one is given) is dropped if and only if its
\* original event_type is "100ms_session_duration_v1.3" and neither the
\* rename map nor a rename rule changed its type; every other such event
\* yields a returned event.
C28_DropReasonsExact ==
    \A i \in Calls :
        (PassesFilter(i) /\ TimestampInWindow(i)) =>
            IF UnrenamedSessionDuration(i) THEN t_results[i].status = "dropped"
            ELSE t_results[i].status = "ok"

(***************************************************************************)
(* Counters of apply_id_remap                                              *)
(***************************************************************************)
UserCounterKeys ==
    {"id_remap_user_id_missing", "events_remapped_user_id", "unmapped_user_ids_seen"}

DeviceCounterKeys ==
    {"id_remap_device_id_missing", "events_remapped_device_id", "unmapped_device_ids_seen"}

\* the identifier is in scope and its map is configured
UserInPlay == m_cfg.scope \in {"user_id", "both"} /\ m_cfg.user_map # None

DeviceInPlay == m_cfg.scope \in {"device_id", "both"} /\ m_cfg.device_map # None

\* the last call added 1 to exactly one counter of keys and nothing to the others
OneBumped(keys) ==
    \E key \in keys :
        /\ Count(m_counters, key) = Count(m_last.before, key) + 1
        /\ \A other \in keys \ {key} : Count(m_counters, other) = Count(m_last.before, other)

NoneBumped(keys) == \A key \in keys : Count(m_counters, key) = Count(m_last.before, key)

\* C29: each call of apply_id_remap adds 1 to exactly one of the counters
\* missing / remapped / unmapped-seen of each identifier that is in scope and
\* whose map is configured, and nothing to the counters of an identifier out
\* of scope; so after any sequence of calls the three counters of such an
\* identifier sum to the number of calls, events_dropped_unmapped never
\* exceeds the sum of the two unmapped-seen counters, and under the policy
\* "keep" no event is dropped and an unmapped identifier is left as it was.
C29_CountersPartitionCalls ==
    /\ DOMAIN m_counters
            \subseteq UserCounterKeys \cup DeviceCounterKeys \cup {"events_dropped_unmapped"}
    /\ UserCounts(m_counters) = IF UserInPlay THEN m_ncalls ELSE 0
    /\ DeviceCounts(m_counters) = IF DeviceInPlay THEN m_ncalls ELSE 0
    /\ Count(m_counters, "events_dropped_unmapped")
            <= Count(m_counters, "unmapped_user_ids_seen")
                + Count(m_counters, "unmapped_device_ids_seen")
    /\ m_ncalls > 0 =>
        /\ IF UserInPlay THEN OneBumped(UserCounterKeys) ELSE NoneBumped(UserCounterKeys)
        /\ IF DeviceInPlay THEN OneBumped(DeviceCounterKeys) ELSE NoneBumped(DeviceCounterKeys)
        /\ m_cfg.unmapped_policy = "keep" =>
            /\ ~m_last.dropped
            /\ Count(m_counters, "events_dropped_unmapped") = 0
            /\ (~UserInPlay \/ ~InMap(m_last.given.user_id, m_cfg.user_map))
                    => m_last.evt.user_id = m_last.given.user_id
            /\ (~DeviceInPlay \/ ~InMap(m_last.given.device_id, m_cfg.device_map))
                    => m_last.evt.device_id = m_last.given.device_id

\* two calls with scope "both": a mapped user without device_id, then an
\* unmapped user with a mapped device, dropped
C29_Witness ==
    /\ m_ncalls = 2
    /\ m_cfg.scope = "both" /\ m_cfg.unmapped_policy = "drop"
    /\ Count(m_counters, "events_remapped_user_id") = 1
    /\ Count(m_counters, "unmapped_user_ids_seen") = 1
    /\ Count(m_counters, "id_remap_device_id_missing") = 1
    /\ Count(m_counters, "events_remapped_device_id") = 1
    /\ Count(m_counters, "events_dropped_unmapped") = 1
    /\ m_last.dropped

(***************************************************************************)
(* send_batch over a transport that can fail                               *)
(***************************************************************************)
\* variant: an attempt that ends without a response is treated like a
\* retryable status
PostRaises_Retried ==
    /\ sb_pc = "post"
    /\ sb_tries' = sb_tries + 1
    /\ IF sb_tries + 1 < sb_max_retries
       THEN /\ \E jitter \in Jitters :
                 sb_sleeps' = Append(sb_sleeps, sleep_s(sb_backoff, sb_tries + 1, jitter))
            /\ sb_pc' = "sleep"
            /\ UNCHANGED pc
       ELSE /\ sb_pc' = "failed"
            /\ pc' = (IF pc \in {"send", "flush"} THEN "aborted" ELSE pc)
            /\ UNCHANGED sb_sleeps
    /\ UNCHANGED <<sb_max_retries, sb_backoff, sb_events, sb_statuses, destvars, tvars, mvars,
                   cfg, stream, total_in, total_kept, total_sent, unique_ids, buf, batches,
                   sample_events, last_user_props, remap_counters, mtu>>

\* lines 656-657: requests.post raises (the timeout elapses, the connection
\* fails); nothing in send_batch catches it, and nothing in run_migration
\* around its two calls (runner.py lines 147-158 and 160-169)
PostRaises ==
    /\ sb_pc = "post"
    /\ sb_tries' = sb_tries + 1
    /\ sb_pc' = "failed"
    /\ pc' = (IF pc \in {"send", "flush"} THEN "aborted" ELSE pc)
    /\ UNCHANGED <<sb_max_retries, sb_backoff, sb_events, sb_statuses, sb_sleeps, destvars,
                   tvars, mvars, cfg, stream, total_in, total_kept, total_sent, unique_ids,
                   buf, batches, sample_events, last_user_props, remap_counters, mtu>>

MaxTransportEvents == 3

TransportCfgs ==
    {[RunBase EXCEPT !.batch_size = bs, !.max_retries = mr] :
        bs \in 1..MaxBatchSize, mr \in {0, 1, 3}}

TransportEvents ==
    {MkEvt(PyStr("a"), PyInt(1000), Absent, Absent, PyStr("u1"), PyStr("d1"), Absent, Absent),
     MkEvt(PyStr("a"), Absent, Absent, Absent, PyStr("u2"), Absent, Absent, Absent)}

TransportStreams == UNION {[1..n -> TransportEvents] : n \in 0..MaxTransportEvents}

InitTransport ==
    /\ StartOfRun
    /\ cfg \in TransportCfgs
    /\ stream \in TransportStreams
    /\ dest = {200, 400, 503}

NextTransport == ReadEvent \/ EndOfStream \/ SendAttempt \/ SendWake \/ PostRaises

SpecTransport == InitTransport /\ [][NextTransport]_vars

\* the call of send_batch ended with the exception of the POST
TransportFailed == sb_pc = "failed"

\* the number of retryable statuses the call has received
TransientSeen == Cardinality({i \in 1..Len(sb_statuses) : sb_statuses[i] \in TransientCodes})

\* C30: an attempt that ends without a response is the last one of the call,
\* whatever max_retries is: no sleep follows it (every sleep of the call
\* follows a response with a retryable status), the run is aborted, the
\* batch is neither acknowledged nor counted as sent, and nothing happens
\* afterwards; a sleep, and so a retry, only ever follows a retryable status.
C30_TransportFailureNotRetried ==
    /\ [](TransportFailed =>
            /\ sb_tries = Len(sb_statuses) + 1
            /\ Len(sb_sleeps) = Len(sb_statuses)
            /\ pc = "aborted"
            /\ total_sent = SumSeq(batches)
            /\ total_sent = DeliveredCount
            /\ \A i \in 1..Len(delivered) : delivered[i] # sb_events)
    /\ [](Len(sb_sleeps) <= TransientSeen)
    /\ [][TransportFailed => UNCHANGED vars]_vars
    /\ [][Len(sb_sleeps') > Len(sb_sleeps) =>
            /\ Len(sb_statuses') = Len(sb_statuses) + 1
            /\ sb_statuses'[Len(sb_statuses')] \in TransientCodes]_vars

\* max_retries = 3: one batch was delivered, the next one got a 503, slept,
\* and its second attempt timed out with one attempt still allowed
C30_Witness ==
    /\ TransportFailed
    /\ sb_max_retries = 3
    /\ sb_tries = 2
    /\ sb_statuses = <<503>>
    /\ Len(sb_sleeps) = 1
    /\ pc = "aborted"
    /\ Len(delivered) = 1
    /\ total_sent = 1
====
